---------------------------- MODULE Spec2Model ----------------------------
(***************************************************************************)
(* Waveridai: the client-side audio feature extractor (AudioUtils), the    *)
(* Lyria music-generation service with its API route, and the Google       *)
(* Gemini analysis service.                                                *)
(*                                                                         *)
(* Arithmetic.  The source computes in IEEE floating point.  The model     *)
(* keeps the transform exact: a complex number is an element of the ring   *)
(* Z[zeta], zeta = exp(-2*pi*sqrt(-1)/FFTOrder), written as its vector of  *)
(* FFTOrder/2 integer coordinates (zeta^(FFTOrder/2) = -1).  Every twiddle *)
(* factor of a power-of-two transform up to FFTOrder points is a power of  *)
(* zeta, so sums, differences and products are the exact ones.  Square     *)
(* roots and quotients, which leave the ring, are rounded to a fixed-point *)
(* grid of 1/Unit, as the source rounds them to the floating-point grid.   *)
(* Frame and hop sizes are the source's divided by 128 (2048/512/1024      *)
(* become 16/4/8), which keeps their ratios.                               *)
(***************************************************************************)
EXTENDS Integers, Sequences, FiniteSets, TLC

VARIABLES
    inBuffer,      \* the AudioBuffer handed to AudioUtils.analyzeAudio
    outAnalysis,   \* the AudioAnalysis of the latest call, if any
    prevAnalysis,  \* the AudioAnalysis of the call before it, if any
    inSignal,      \* the frame handed to AudioUtils.fft
    outMagnitude,  \* the magnitude spectrum fft returned for it, if any
    lyriaBody,     \* the JSON body of a POST /api/lyria/generate request
    lyriaPc,       \* where its handler stands: "idle", "running", "done"
    lyriaInput,    \* the input generateMusic handed to replicate.run, if any
    lyriaResponse, \* the handler's response, if any
    geminiEnv,         \* whether GOOGLE_AI_API_KEY is set, and whether
                       \* constructing the client throws
    geminiInitialized, \* GoogleGeminiService.isInitialized
    geminiPc,          \* "idle", "analyzing", "prompting", "done"
    geminiRequest,     \* the request of the service call, if any
    geminiContacted,   \* whether the hosted model has been called
    geminiOutcome,     \* how the promise of the service call settled, if it has
    workflow,      \* the state of the useWorkflowState store
    section,       \* GenerateSection: userPrompt, the calls of
                   \* handleGenerate in flight, the files being decoded
    logged,        \* the logToTerminal calls of the last handler: for each
                   \* message, how its request to /api/log ended
    logPromises,   \* and the promise the call returned
    failedLogs,    \* how many logToTerminal requests have not been delivered
    uploader,      \* AudioUploader: isProcessing, error, uploadedFile, the
                   \* file last dropped and the calls of onUpload
    promptBody,    \* the JSON body of a POST /api/prompt/generate request
    promptResponse, \* the handler's response, if any
    exec           \* a feature function of AudioUtils followed statement by
                   \* statement: the function, its position, its loop variables

audioVars == <<inBuffer, outAnalysis, prevAnalysis, inSignal, outMagnitude>>
lyriaVars == <<lyriaBody, lyriaPc, lyriaInput, lyriaResponse>>
geminiVars ==
    <<geminiEnv, geminiInitialized, geminiPc, geminiRequest, geminiContacted,
      geminiOutcome>>
studioVars == <<workflow, section, logged, logPromises, failedLogs>>
uploadVars == <<uploader>>
promptVars == <<promptBody, promptResponse>>
execVars == <<exec>>
otherVars == <<studioVars, uploadVars, promptVars, execVars>>
vars == <<audioVars, lyriaVars, geminiVars, otherVars>>

\* A value that may be absent.
None == << >>
Some(x) == <<x>>
Get(o) == o[1]
Range(list) == {list[k] : k \in DOMAIN list}

(***************************************************************************)
(* Bounds of the model.                                                    *)
(***************************************************************************)
FracBits == 8
MaxPulses == 2
MaxShort == 4
MaxHops == 9

Unit == 2 ^ FracBits

(***************************************************************************)
(* Rounded integer arithmetic (the floating-point grid).                   *)
(***************************************************************************)
Abs(x) == IF x < 0 THEN -x ELSE x

RECURSIVE IsqrtSearch(_, _, _)
IsqrtSearch(n, lo, hi) ==
    IF lo >= hi THEN lo
    ELSE LET mid == (lo + hi + 1) \div 2
         IN  IF mid * mid <= n THEN IsqrtSearch(n, mid, hi)
                               ELSE IsqrtSearch(n, lo, mid - 1)

\* Math.sqrt on the grid: the integer nearest to the square root of n.
Sqrt(n) ==
    LET r == IsqrtSearch(n, 0, 46340)
    IN  IF n - r * r > r THEN r + 1 ELSE r

\* a / b for grid values a, b (b # 0), rounded to the grid.
Quot(a, b) ==
    LET n == 2 * Abs(a) * Unit + Abs(b)
        q == n \div (2 * Abs(b))
    IN  IF (a < 0) = (b < 0) THEN q ELSE -q

\* a * b for grid values a, b, rounded to the grid.
Prod(a, b) ==
    LET q == (2 * Abs(a) * Abs(b) + Unit) \div (2 * Unit)
    IN  IF (a < 0) = (b < 0) THEN q ELSE -q

(***************************************************************************)
(* Arrays are functions on 0 .. N-1, as in the source.  NewArray(F, N) is   *)
(* the array of length N holding F(i) at index i, every element computed   *)
(* when the array is made (the @@ makes it a table rather than a rule).    *)
(***************************************************************************)
NewArray(F(_), N) == [i \in 0 .. (N - 1) |-> F(i)] @@ << >>
Len0(a) == Cardinality(DOMAIN a)

(***************************************************************************)
(* Complex numbers of the transform: Z[zeta].                              *)
(***************************************************************************)
\* The frame sizes of the feature functions, scaled by 1/128 (2048, 512 and
\* 1024 in the source), and the number of coefficients.
fftSize == 16
hopSize == 4
frameSize == 8
mfccCoeffs == 13

\* The largest frame the transform is given.
FFTOrder == fftSize
Half == FFTOrder \div 2
Coord == 0 .. (Half - 1)

CReal(x) == <<x, 0, 0, 0, 0, 0, 0, 0>>
CZero == CReal(0)
CAdd(a, b) ==
    <<a[1] + b[1], a[2] + b[2], a[3] + b[3], a[4] + b[4],
      a[5] + b[5], a[6] + b[6], a[7] + b[7], a[8] + b[8]>>
CSub(a, b) ==
    <<a[1] - b[1], a[2] - b[2], a[3] - b[3], a[4] - b[4],
      a[5] - b[5], a[6] - b[6], a[7] - b[7], a[8] - b[8]>>

\* The product: coordinate e+1 of a * b collects a_i * b_(e-i) for i <= e
\* and -a_i * b_(e-i+8) for i > e (zeta^8 = -1).
CMul(a, b) ==
    <<   a[1] * b[1] - a[2] * b[8] - a[3] * b[7] - a[4] * b[6]
         - a[5] * b[5] - a[6] * b[4] - a[7] * b[3] - a[8] * b[2],
         a[1] * b[2] + a[2] * b[1] - a[3] * b[8] - a[4] * b[7]
         - a[5] * b[6] - a[6] * b[5] - a[7] * b[4] - a[8] * b[3],
         a[1] * b[3] + a[2] * b[2] + a[3] * b[1] - a[4] * b[8]
         - a[5] * b[7] - a[6] * b[6] - a[7] * b[5] - a[8] * b[4],
         a[1] * b[4] + a[2] * b[3] + a[3] * b[2] + a[4] * b[1]
         - a[5] * b[8] - a[6] * b[7] - a[7] * b[6] - a[8] * b[5],
         a[1] * b[5] + a[2] * b[4] + a[3] * b[3] + a[4] * b[2]
         + a[5] * b[1] - a[6] * b[8] - a[7] * b[7] - a[8] * b[6],
         a[1] * b[6] + a[2] * b[5] + a[3] * b[4] + a[4] * b[3]
         + a[5] * b[2] + a[6] * b[1] - a[7] * b[8] - a[8] * b[7],
         a[1] * b[7] + a[2] * b[6] + a[3] * b[5] + a[4] * b[4]
         + a[5] * b[3] + a[6] * b[2] + a[7] * b[1] - a[8] * b[8],
         a[1] * b[8] + a[2] * b[7] + a[3] * b[6] + a[4] * b[5]
         + a[5] * b[4] + a[6] * b[3] + a[7] * b[2] + a[8] * b[1] >>

\* zeta^e, e >= 0.
Zeta(e) ==
    LET r == e % FFTOrder
        s == IF r < Half THEN 1 ELSE -1
        k == IF r < Half THEN r ELSE r - Half
    IN  [CZero EXCEPT ![k + 1] = s]

\* cos(2*pi*k/16) on the grid, by the half-angle formula from cos(pi/2) = 0.
CosQuarter == Sqrt((Unit * Unit) \div 2)
CosEighth == Sqrt((Unit * (Unit + CosQuarter)) \div 2)
SinEighth == Sqrt((Unit * (Unit - CosQuarter)) \div 2)
CosTab ==
    NewArray(LAMBDA k :
        CASE k = 0 -> Unit
          [] k = 1 -> CosEighth
          [] k = 2 -> CosQuarter
          [] k = 3 -> SinEighth
          [] k = 4 -> 0
          [] k = 5 -> -SinEighth
          [] k = 6 -> -CosQuarter
          [] k = 7 -> -CosEighth
          [] OTHER -> -Unit, Half + 1)
SinTab == NewArray(LAMBDA k : CosTab[Abs(k - 4)], Half)

RECURSIVE DotTab(_, _, _)
DotTab(a, tab, k) ==
    IF k = Half THEN 0 ELSE a[k + 1] * tab[k] + DotTab(a, tab, k + 1)

\* Real and imaginary part of a ring element on the grid
\* (zeta^k = cos(2*pi*k/16) - sqrt(-1)*sin(2*pi*k/16)).
RealPart(a) == DotTab(a, CosTab, 0)
ImagPart(a) == -DotTab(a, SinTab, 0)

(***************************************************************************)
(* AudioUtils.fft                                                          *)
(***************************************************************************)
\* j & bit for a power of two bit (0 when bit = 0).
BitAnd(j, bit) == IF bit = 0 THEN 0 ELSE ((j \div bit) % 2) * bit
\* j ^ bit for a power of two bit.
BitXor(j, bit) == IF BitAnd(j, bit) # 0 THEN j - bit ELSE j + bit

\* while (j & bit) { j ^= bit; bit >>= 1 };  j ^= bit
RECURSIVE NextReversed(_, _)
NextReversed(j, bit) ==
    IF BitAnd(j, bit) # 0
    THEN NextReversed(BitXor(j, bit), bit \div 2)
    ELSE BitXor(j, bit)

Swap(output, i, j) ==
    [output EXCEPT ![i] = output[j], ![j] = output[i]]

\* The variant that swaps whenever i and j differ.
RECURSIVE BitReverseLoopAlways(_, _, _)
BitReverseLoopAlways(output, i, j) ==
    IF i >= Len0(output) THEN output
    ELSE LET j2 == NextReversed(j, Len0(output) \div 2)
         IN  BitReverseLoopAlways(IF i # j2 THEN Swap(output, i, j2) ELSE output,
                                  i + 1, j2)

\* for (let i = 1; i < N; i++): the bit-reverse permutation
\* (N is the number of complex entries of output).
RECURSIVE BitReverseLoop(_, _, _)
BitReverseLoop(output, i, j) ==
    IF i >= Len0(output) THEN output
    ELSE LET j2 == NextReversed(j, Len0(output) \div 2)
         IN  BitReverseLoop(IF i < j2 THEN Swap(output, i, j2) ELSE output,
                            i + 1, j2)

\* (cos(angle), sin(angle)) for angle = -2*pi/length.
Wlen(length) == Zeta(FFTOrder \div length)

\* The variant that stores the sum in both halves.
ButterflySumOnly(output, i, j, half, w) ==
    LET u == output[i + j]
        v == CMul(output[i + j + half], w)
    IN  [output EXCEPT ![i + j] = CAdd(u, v), ![i + j + half] = CAdd(u, v)]

\* One butterfly, at block start i, position j, twiddle w.
Butterfly(output, i, j, half, w) ==
    LET u == output[i + j]
        v == CMul(output[i + j + half], w)
    IN  [output EXCEPT ![i + j] = CAdd(u, v), ![i + j + half] = CSub(u, v)]

\* for (let j = 0; j < length / 2; j++)
RECURSIVE ButterflyLoop(_, _, _, _, _)
ButterflyLoop(output, i, j, length, w) ==
    IF j >= length \div 2 THEN output
    ELSE ButterflyLoop(Butterfly(output, i, j, length \div 2, w),
                       i, j + 1, length, CMul(w, Wlen(length)))

\* for (let i = 0; i < N; i += length)
RECURSIVE BlockLoop(_, _, _)
BlockLoop(output, i, length) ==
    IF i >= Len0(output) THEN output
    ELSE BlockLoop(ButterflyLoop(output, i, 0, length, CReal(1)),
                   i + length, length)

\* for (let length = 2; length <= N; length <<= 1)
RECURSIVE StageLoop(_, _)
StageLoop(output, length) ==
    IF length > Len0(output) THEN output
    ELSE StageLoop(BlockLoop(output, 0, length), 2 * length)

\* Math.sqrt(re ** 2 + im ** 2), stored in a Float32Array.
Magnitude(c) ==
    LET re == RealPart(c)
        im == ImagPart(c)
    IN  Sqrt(re * re + im * im)

\* The complex output array of fft before the magnitudes are taken.
FftComplex(signal) ==
    LET N == Len0(signal)
        output == NewArray(LAMBDA i : CReal(signal[i]), N)
    IN  StageLoop(BitReverseLoop(output, 1, 0), 2)

fft(signal) ==
    LET out == FftComplex(signal)
    IN  NewArray(LAMBDA i : Magnitude(out[i]), Len0(signal))

(***************************************************************************)
(* JavaScript numbers that can be NaN: a quotient whose divisor is 0.      *)
(***************************************************************************)
Num(v) == [nan |-> FALSE, v |-> v]
NaN == [nan |-> TRUE, v |-> 0]

\* a / b on the grid for two numbers of the same scale; 0 / 0 is NaN.  The
\* source never divides a non-zero number by 0, so Infinity is not modelled.
Div(a, b) == IF b = 0 THEN NaN ELSE Num(Quot(a, b))
Plus(x, y) == IF x.nan \/ y.nan THEN NaN ELSE Num(x.v + y.v)

(***************************************************************************)
(* AudioUtils: the feature functions.  An AudioBuffer is a record          *)
(* [sampleRate, numberOfChannels, channelData], channelData[c] the sample  *)
(* array of channel c.                                                     *)
(***************************************************************************)

getChannelData(audioBuffer, c) == audioBuffer.channelData[c]

\* Float32Array.prototype.slice(begin, end): a copy of the elements
\* begin .. end-1, end clamped to the length.
Slice(a, begin, end) ==
    LET e == IF end > Len0(a) THEN Len0(a) ELSE end
    IN  NewArray(LAMBDA k : a[begin + k], IF e > begin THEN e - begin ELSE 0)

\* audioBuffer.duration, in seconds on the grid.
Duration(audioBuffer) ==
    Quot(Len0(getChannelData(audioBuffer, 0)), audioBuffer.sampleRate)

\* for (let i = 0; i < channelData.length - size; i += hop): the values of
\* i for which the body runs, in order.
RECURSIVE FrameStartsFrom(_, _, _, _)
FrameStartsFrom(length, size, hop, i) ==
    IF ~(i < length - size) THEN << >>
    ELSE <<i>> \o FrameStartsFrom(length, size, hop, i + hop)

FrameStarts(length, size, hop) == FrameStartsFrom(length, size, hop, 0)

\* for (let j = 0; j < magnitude.length / 2; j++): the two running sums.
RECURSIVE CentroidSums(_, _, _, _, _)
CentroidSums(magnitude, sampleRate, j, weightedSum, magnitudeSum) ==
    IF 2 * j >= Len0(magnitude)
    THEN [weightedSum |-> weightedSum, magnitudeSum |-> magnitudeSum]
    ELSE LET freq == Quot(j * sampleRate, Len0(magnitude))
             mag == magnitude[j]
         IN  CentroidSums(magnitude, sampleRate, j + 1,
                          weightedSum + Prod(freq, mag), magnitudeSum + mag)

\* The variant without the silence guard: every frame enters the average.
FrameIsCountedAlways(magnitudeSum) == magnitudeSum >= 0

\* if (magnitudeSum > 0): the frame enters the running average.
FrameIsCounted(magnitudeSum) == magnitudeSum > 0

\* The frame loop, over the frame starts it visits; loop holds the loop's
\* variables: the starts still to visit, totalCentroid and frameCount.
RECURSIVE CentroidLoop(_, _, _)
CentroidLoop(channelData, sampleRate, loop) ==
    IF loop.starts = << >>
    THEN IF loop.frameCount > 0
         THEN IF loop.totalCentroid.nan THEN NaN
              ELSE Div(loop.totalCentroid.v, loop.frameCount * Unit)
         ELSE Num(0)
    ELSE LET i == Head(loop.starts)
             frame == Slice(channelData, i, i + fftSize)
             magnitude == fft(frame)
             sums == CentroidSums(magnitude, sampleRate, 0, 0, 0)
             counted == FrameIsCounted(sums.magnitudeSum)
         IN  CentroidLoop(channelData, sampleRate,
                [starts |-> Tail(loop.starts),
                 totalCentroid |->
                    IF counted
                    THEN Plus(loop.totalCentroid,
                              Div(sums.weightedSum, sums.magnitudeSum))
                    ELSE loop.totalCentroid,
                 frameCount |->
                    IF counted THEN loop.frameCount + 1 ELSE loop.frameCount])

calculateSpectralCentroid(audioBuffer) ==
    LET channelData == getChannelData(audioBuffer, 0)
    IN  CentroidLoop(channelData, audioBuffer.sampleRate,
            [starts |-> FrameStarts(Len0(channelData), fftSize, hopSize),
             totalCentroid |-> Num(0),
             frameCount |-> 0])

\* (channelData[i] >= 0) !== (channelData[i - 1] >= 0)
IsCrossing(sample, before) == (sample >= 0) # (before >= 0)

\* for (let i = 1; i < channelData.length; i++); loop holds i and crossings.
RECURSIVE CrossingLoop(_, _)
CrossingLoop(channelData, loop) ==
    IF ~(loop.i < Len0(channelData)) THEN loop.crossings
    ELSE CrossingLoop(channelData,
            [i |-> loop.i + 1,
             crossings |->
                IF IsCrossing(channelData[loop.i], channelData[loop.i - 1])
                THEN loop.crossings + 1 ELSE loop.crossings])

\* crossings / (channelData.length - 1): 0 / 0 for one sample,
\* 0 / -1 (that is -0, which equals 0) for none.
calculateZeroCrossingRate(audioBuffer) ==
    LET channelData == getChannelData(audioBuffer, 0)
    IN  Div(CrossingLoop(channelData, [i |-> 1, crossings |-> 0]),
            Len0(channelData) - 1)

(***************************************************************************)
(* Math.log10 on the grid, by the binary logarithm computed bit by bit.    *)
(***************************************************************************)
RECURSIVE Log2Frac(_, _, _)
Log2Frac(x, b, acc) ==
    IF b > FracBits THEN acc
    ELSE LET sq == (x * x) \div Unit
         IN  IF sq >= 2 * Unit
             THEN Log2Frac(sq \div 2, b + 1, acc + Unit \div (2 ^ b))
             ELSE Log2Frac(sq, b + 1, acc)

RECURSIVE Log2(_, _)
Log2(x, n) ==
    IF x >= 2 * Unit THEN Log2(x \div 2, n + 1)
    ELSE n * Unit + Log2Frac(x, 1, 0)

\* Math.log10(x) for a grid value x >= 1.
Log10(x) == Prod(Log2(x, 0), Quot(30103, 100000))

\* 2595 * Math.log10(1 + hz / 700)
hzToMel(hz) == Prod(2595 * Unit, Log10(Unit + Quot(hz, 700 * Unit)))

\* The variant whose coefficients are weighted by the spectrum of the frame.
RECURSIVE MfccPushWeighted(_, _, _)
MfccPushWeighted(sampleRate, magnitude, loop) ==
    IF ~(loop.j < mfccCoeffs) THEN loop.mfccFeatures
    ELSE MfccPushWeighted(sampleRate, magnitude,
            [j |-> loop.j + 1,
             mfccFeatures |->
                Append(loop.mfccFeatures,
                       hzToMel(Quot(loop.j * sampleRate, Len0(magnitude)))
                          + magnitude[loop.j % Len0(magnitude)])])

\* for (let j = 0; j < mfccCoeffs; j++) mfccFeatures.push(melFreq); loop
\* holds j and mfccFeatures.
RECURSIVE MfccPush(_, _, _)
MfccPush(sampleRate, magnitude, loop) ==
    IF ~(loop.j < mfccCoeffs) THEN loop.mfccFeatures
    ELSE MfccPush(sampleRate, magnitude,
            [j |-> loop.j + 1,
             mfccFeatures |->
                Append(loop.mfccFeatures,
                       hzToMel(Quot(loop.j * sampleRate, Len0(magnitude))))])

\* The frame loop, over the frame starts it visits; loop holds the starts
\* still to visit and mfccFeatures.
RECURSIVE MfccLoop(_, _, _)
MfccLoop(channelData, sampleRate, loop) ==
    IF loop.starts = << >> THEN loop.mfccFeatures
    ELSE LET i == Head(loop.starts)
             frame == Slice(channelData, i, i + frameSize)
             magnitude == fft(frame)
         IN  MfccLoop(channelData, sampleRate,
                [starts |-> Tail(loop.starts),
                 mfccFeatures |->
                    MfccPush(sampleRate, magnitude,
                             [j |-> 0, mfccFeatures |-> loop.mfccFeatures])])

\* Array.prototype.slice(0, end) of a list.
Take(list, end) == SubSeq(list, 1, IF end < Len(list) THEN end ELSE Len(list))

calculateMFCC(audioBuffer) ==
    LET channelData == getChannelData(audioBuffer, 0)
    IN  Take(MfccLoop(channelData, audioBuffer.sampleRate,
                [starts |-> FrameStarts(Len0(channelData), frameSize, hopSize),
                 mfccFeatures |-> << >>]),
             mfccCoeffs)

\* Math.max(...magnitude) of a non-empty array.
RECURSIVE MaxFrom(_, _, _)
MaxFrom(magnitude, j, best) ==
    IF j >= Len0(magnitude) THEN best
    ELSE MaxFrom(magnitude, j + 1,
                 IF magnitude[j] > best THEN magnitude[j] ELSE best)

MathMax(magnitude) == MaxFrom(magnitude, 1, magnitude[0])

\* m > threshold, threshold = max * 0.1 (compared exactly, as 10 m > max).
AboveThreshold(m, max) == 10 * m > max

\* magnitude[j] > threshold && magnitude[j] > magnitude[j - 1]
\*                          && magnitude[j] > magnitude[j + 1]
IsPeak(magnitude, max, j) ==
    /\ AboveThreshold(magnitude[j], max)
    /\ magnitude[j] > magnitude[j - 1]
    /\ magnitude[j] > magnitude[j + 1]

\* for (let j = 1; j < magnitude.length - 1; j++): the peak count.
RECURSIVE PeakLoop(_, _, _, _)
PeakLoop(magnitude, max, j, peakCount) ==
    IF ~(j < Len0(magnitude) - 1) THEN peakCount
    ELSE PeakLoop(magnitude, max, j + 1,
            IF IsPeak(magnitude, max, j) THEN peakCount + 1 ELSE peakCount)

CountPeaks(magnitude) == PeakLoop(magnitude, MathMax(magnitude), 1, 0)

\* peakCount > 3
IsPolyphonicFrame(peakCount) == peakCount > 3

\* The variant whose comparison with 0.3 is not strict.
PolyphonyVerdictAtLeast(polyphonicFrames, totalFrames) ==
    totalFrames > 0 /\ 10 * polyphonicFrames >= 3 * totalFrames

\* totalFrames > 0 && (polyphonicFrames / totalFrames) > 0.3, the quotient
\* compared exactly (10 p > 3 t).
PolyphonyVerdict(polyphonicFrames, totalFrames) ==
    totalFrames > 0 /\ 10 * polyphonicFrames > 3 * totalFrames

\* The frame loop, over the frame starts it visits (the source's frameSize
\* is 2048 here, the model's fftSize); loop holds the starts still to visit,
\* polyphonicFrames and totalFrames.
RECURSIVE PolyphonyLoop(_, _)
PolyphonyLoop(channelData, loop) ==
    IF loop.starts = << >>
    THEN PolyphonyVerdict(loop.polyphonicFrames, loop.totalFrames)
    ELSE LET i == Head(loop.starts)
             frame == Slice(channelData, i, i + fftSize)
             magnitude == fft(frame)
         IN  PolyphonyLoop(channelData,
                [starts |-> Tail(loop.starts),
                 polyphonicFrames |->
                    IF IsPolyphonicFrame(CountPeaks(magnitude))
                    THEN loop.polyphonicFrames + 1
                    ELSE loop.polyphonicFrames,
                 totalFrames |-> loop.totalFrames + 1])

detectPolyphony(audioBuffer) ==
    LET channelData == getChannelData(audioBuffer, 0)
    IN  PolyphonyLoop(channelData,
            [starts |-> FrameStarts(Len0(channelData), fftSize, hopSize),
             polyphonicFrames |-> 0,
             totalFrames |-> 0])

analyzeAudio(audioBuffer) ==
    [format |-> [sampleRate |-> audioBuffer.sampleRate,
                 channels |-> audioBuffer.numberOfChannels,
                 bitDepth |-> 16,
                 duration |-> Duration(audioBuffer)],
     isPolyphonic |-> detectPolyphony(audioBuffer),
     spectralCentroid |-> calculateSpectralCentroid(audioBuffer),
     zeroCrossingRate |-> calculateZeroCrossingRate(audioBuffer),
     mfccFeatures |-> calculateMFCC(audioBuffer),
     tempo |-> "null",
     key |-> "null"]

(***************************************************************************)
(* Inputs.  A pulse signal of length L is 0 everywhere but at the given    *)
(* positions.                                                              *)
(***************************************************************************)
SmallSets(S) == {P \in SUBSET S : Cardinality(P) <= MaxPulses}

\* Frames for fft: every power-of-two length up to FFTOrder, pulses of
\* value 1 at even and -1 at odd positions.
FrameLengths == {1, 2, 4, 8, 16}
PulseFrame(N, P) ==
    NewArray(LAMBDA i : IF i \in P THEN (IF i % 2 = 0 THEN 1 ELSE -1) ELSE 0, N)
Frames ==
    UNION {{PulseFrame(N, P) : P \in SmallSets(0 .. (N - 1))} : N \in FrameLengths}

\* Channels for analyzeAudio: every short channel over {-1, 0, 1}; and
\* longer ones, of every length around a whole number of hops, carrying
\* unit pulses at some of the PulseSites.
Amplitudes == {-1, 0, 1}
PulseSites == {6, 10, 15}
ShortChannels ==
    UNION {[0 .. (L - 1) -> Amplitudes] : L \in 0 .. MaxShort}
LongLengths ==
    {frameSize, frameSize + 1}
    \cup {fftSize + h * hopSize + r : h \in 0 .. MaxHops, r \in 0 .. 1}
PulseChannel(L, P) == NewArray(LAMBDA i : IF i \in P THEN 1 ELSE 0, L)
LongChannels ==
    {PulseChannel(L, P) : L \in LongLengths, P \in SmallSets(PulseSites)}
Channels == ShortChannels \cup LongChannels

\* A second channel, when there is one, holds the first one negated.
Negated(channel) == NewArray(LAMBDA i : -channel[i], Len0(channel))
Mono(sampleRate, channel) ==
    [sampleRate |-> sampleRate, numberOfChannels |-> 1,
     channelData |-> (0 :> channel)]
Stereo(sampleRate, channel) ==
    [sampleRate |-> sampleRate, numberOfChannels |-> 2,
     channelData |-> (0 :> channel @@ 1 :> Negated(channel))]
AudioBuffers ==
    {Mono(16, c) : c \in Channels} \cup {Stereo(44, c) : c \in Channels}

NoBuffer == Mono(1, << >>)
NoFrame == << >>

(***************************************************************************)
(* JavaScript values, as far as the services look at them: every value     *)
(* carries its type; an object carries its own properties.                 *)
(***************************************************************************)
Undefined == [type |-> "undefined"]
Null == [type |-> "null"]
JsString(s) == [type |-> "string", s |-> s]
JsNumber(n) == [type |-> "number", n |-> n]
JsFunction(returns) == [type |-> "function", returns |-> returns]
JsObject(fields) == [type |-> "object", fields |-> fields]
JsArray(items) == [type |-> "array", items |-> items]

\* ToBoolean(v)
Truthy(v) ==
    CASE v.type \in {"undefined", "null"} -> FALSE
      [] v.type = "string" -> v.s # ""
      [] v.type = "number" -> v.n # 0
      [] OTHER -> TRUE

\* v || d
Or(v, d) == IF Truthy(v) THEN v ELSE d
\* A destructuring default: { v = d } = body
Default(v, d) == IF v = Undefined THEN d ELSE v
\* name in v, for an object v
HasProp(v, name) == v.type = "object" /\ name \in DOMAIN v.fields
\* v[name], for v neither undefined nor null
Prop(v, name) == IF HasProp(v, name) THEN v.fields[name] ELSE Undefined
\* array[0]
First(array) == IF array.items = << >> THEN Undefined ELSE array.items[1]

\* How a call ends.
Returned(v) == [thrown |-> FALSE, value |-> v]
Thrown(message) == [thrown |-> TRUE, message |-> message]

(***************************************************************************)
(* A specification follows one component; the others are switched off.     *)
(***************************************************************************)
NoBody == Undefined
NoEnv == [apiKey |-> FALSE, clientThrows |-> FALSE]

AudioOff ==
    /\ inBuffer = NoBuffer
    /\ outAnalysis = None
    /\ prevAnalysis = None
    /\ inSignal = NoFrame
    /\ outMagnitude = None

LyriaOff ==
    /\ lyriaBody = NoBody
    /\ lyriaPc = "off"
    /\ lyriaInput = None
    /\ lyriaResponse = None

GeminiOff ==
    /\ geminiEnv = NoEnv
    /\ geminiInitialized = FALSE
    /\ geminiPc = "off"
    /\ geminiRequest = None
    /\ geminiContacted = FALSE
    /\ geminiOutcome = None

StudioOff ==
    /\ workflow = None
    /\ section = None
    /\ logged = None
    /\ logPromises = None
    /\ failedLogs = 0

UploadOff == uploader = None

PromptOff ==
    /\ promptBody = NoBody
    /\ promptResponse = None

ExecOff == exec = None

OthersOff == StudioOff /\ UploadOff /\ PromptOff /\ ExecOff

(***************************************************************************)
(* LyriaService.generateMusic and POST /api/lyria/generate.  Temperatures  *)
(* are in tenths.                                                          *)
(***************************************************************************)
MaxRandom == 2
DefaultDuration == 10
DefaultTemperature == 8
Randoms == 0 .. MaxRandom

\* const input = { prompt, duration: request.duration || 10,
\*                 seed: request.seed || Math.floor(Math.random() * 1000000),
\*                 temperature: request.temperature || 0.8 }
LyriaInput(request, random) ==
    [prompt |-> request.prompt,
     duration |-> Or(request.duration, JsNumber(DefaultDuration)),
     seed |-> Or(request.seed, JsNumber(random)),
     temperature |-> Or(request.temperature, JsNumber(DefaultTemperature))]

\* The audio URL taken from the output of replicate.run, or the throw of
\* the last branch.
ExtractAudioUrl(output) ==
    IF output.type = "array"
    THEN LET firstOutput == First(output)
         IN  IF Truthy(firstOutput) /\ Prop(firstOutput, "url").type = "function"
             THEN Returned(Prop(firstOutput, "url").returns)
             ELSE Returned(firstOutput)
    ELSE IF Truthy(output) /\ Prop(output, "url").type = "function"
    THEN Returned(Prop(output, "url").returns)
    ELSE IF Truthy(output) /\ output.type = "object" /\ HasProp(output, "url")
    THEN Returned(Prop(output, "url"))
    ELSE IF Truthy(output) /\ output.type = "string"
    THEN Returned(output)
    ELSE Thrown("Invalid audio output format from Lyria")

\* throw new Error(`Lyria generation failed: ${error.message}`)
LyriaFailure(message) ==
    Thrown([prefix |-> "Lyria generation failed: ", cause |-> message])

\* generateMusic from the point replicate.run settles (run is how it ended).
generateMusic(request, run, random) ==
    IF run.thrown THEN LyriaFailure(run.message)
    ELSE LET audioUrl == ExtractAudioUrl(run.value)
         IN  IF audioUrl.thrown THEN LyriaFailure(audioUrl.message)
             ELSE Returned([audio_url |-> audioUrl.value,
                            seed |-> Or(request.seed, JsNumber(random)),
                            duration |-> Or(request.duration,
                                            JsNumber(DefaultDuration)),
                            prompt |-> request.prompt])

\* const { prompt, duration = 10, seed, temperature = 0.8 } = body, handed
\* to generateMusic as { prompt, duration, seed, temperature }.
LyriaRequest(body) ==
    [prompt |-> body.prompt,
     duration |-> Default(body.duration, JsNumber(DefaultDuration)),
     seed |-> body.seed,
     temperature |-> Default(body.temperature, JsNumber(DefaultTemperature))]

\* NextResponse.json(body, { status })
JsonResponse(status, body) == [status |-> status, body |-> body]
LyriaSuccess(result) == JsonResponse(200, [success |-> TRUE, data |-> result])
LyriaError(message) == JsonResponse(500, [success |-> FALSE, error |-> message])

\* prompt?.substring(0, 100) throws for a prompt that is neither missing
\* nor a string.
SubstringThrows(prompt) ==
    prompt.type \notin {"undefined", "null", "string"}

\* Request bodies and outputs of the hosted model.
LyriaBodies ==
    [prompt : {Undefined, JsString("a piano ballad"), JsNumber(5)},
     duration : {Undefined, JsNumber(0), JsNumber(30)},
     seed : {Undefined, JsNumber(0), JsNumber(7)},
     temperature : {Undefined, JsNumber(0), JsNumber(5)}]
AudioUrl == JsString("https://replicate.delivery/out.wav")
FileOutput(returns) == JsObject("url" :> JsFunction(returns))
LyriaOutputs ==
    {AudioUrl, JsString(""), Null, Undefined, JsNumber(1),
     FileOutput(AudioUrl),
     JsObject("url" :> AudioUrl), JsObject("url" :> JsNumber(1)),
     JsObject("url" :> Undefined), JsObject("id" :> JsString("x")),
     JsArray(<< >>), JsArray(<<AudioUrl>>), JsArray(<<FileOutput(AudioUrl)>>),
     JsArray(<<Null>>), JsArray(<<JsObject("id" :> JsString("x"))>>)}
ReplicateErrors == {"Request failed with status 402", "Prediction failed"}

\* The handler up to generateMusic's await of replicate.run.
LyriaPost ==
    /\ lyriaPc = "idle"
    /\ IF SubstringThrows(lyriaBody.prompt)
       THEN /\ lyriaResponse' =
                  Some(LyriaError("prompt?.substring is not a function"))
            /\ lyriaPc' = "done"
            /\ UNCHANGED lyriaInput
       ELSE /\ \E random \in Randoms :
                  lyriaInput' = Some(LyriaInput(LyriaRequest(lyriaBody), random))
            /\ lyriaPc' = "running"
            /\ UNCHANGED lyriaResponse
    /\ UNCHANGED <<lyriaBody, audioVars, geminiVars, otherVars>>

\* The rest of generateMusic and of the handler, once replicate.run has
\* settled as run: the response.
LyriaSettle(run, random) ==
    LET result == generateMusic(LyriaRequest(lyriaBody), run, random)
    IN  IF result.thrown THEN LyriaError(result.message)
        ELSE LyriaSuccess(result.value)

\* replicate.run resolves with some output.
ReplicateReturns ==
    /\ lyriaPc = "running"
    /\ \E output \in LyriaOutputs, random \in Randoms :
          lyriaResponse' = Some(LyriaSettle(Returned(output), random))
    /\ lyriaPc' = "done"
    /\ UNCHANGED <<lyriaBody, lyriaInput, audioVars, geminiVars, otherVars>>

\* replicate.run rejects.
ReplicateThrows ==
    /\ lyriaPc = "running"
    /\ \E message \in ReplicateErrors, random \in Randoms :
          lyriaResponse' = Some(LyriaSettle(Thrown(message), random))
    /\ lyriaPc' = "done"
    /\ UNCHANGED <<lyriaBody, lyriaInput, audioVars, geminiVars, otherVars>>

InitLyria ==
    /\ lyriaBody \in LyriaBodies
    /\ lyriaPc = "idle"
    /\ lyriaInput = None
    /\ lyriaResponse = None
    /\ AudioOff
    /\ GeminiOff
    /\ OthersOff

NextLyria == LyriaPost \/ ReplicateReturns \/ ReplicateThrows

SpecLyria == InitLyria /\ [][NextLyria]_vars

(***************************************************************************)
(* GoogleGeminiService.  Confidences and temperatures are in tenths.       *)
(***************************************************************************)
\* initialize(): isInitialized after construction.
initialize(env) == env.apiKey /\ ~env.clientThrows

Strings(list) == JsArray([k \in DOMAIN list |-> JsString(list[k])])

\* The entries of mockResponses.
MockResponse(instruments, genre, mood, tempo, key, style, confidence) ==
    JsObject([instruments |-> Strings(instruments),
              genre |-> JsString(genre),
              mood |-> JsString(mood),
              tempo |-> JsNumber(tempo),
              key |-> JsString(key),
              style |-> JsString(style),
              confidence |-> JsNumber(confidence)])
mockResponses ==
    << MockResponse(<<"electric guitar", "bass guitar", "drums", "synthesizer">>,
                    "electronic rock", "energetic", 128, "G minor",
                    "modern electronic", 8),
       MockResponse(<<"piano", "strings", "acoustic guitar">>,
                    "ambient", "calm", 90, "C major", "cinematic ambient", 9),
       MockResponse(<<"synthesizer", "drum machine", "bass">>,
                    "electronic dance", "upbeat", 140, "F minor", "EDM", 8) >>

\* getMockResponse: mockResponses[Math.floor(Math.random() * 3)]
getMockResponse(randomIndex) == mockResponses[randomIndex + 1]

\* Reading a property of undefined or null throws.
ReadThrows(v) == v.type \in {"undefined", "null"}
\* v.instruments.join(', ') throws unless v is an object (or another value
\* that is not undefined or null) whose instruments is an array.
JoinThrows(v) == ReadThrows(v) \/ Prop(v, "instruments").type # "array"

\* What the prompt templates say of an analysis.
Described(analysis) ==
    [genre |-> Prop(analysis, "genre"),
     instruments |-> Prop(analysis, "instruments"),
     mood |-> Prop(analysis, "mood"),
     tempo |-> Prop(analysis, "tempo"),
     key |-> Prop(analysis, "key"),
     style |-> Prop(analysis, "style")]

\* getMockLyriaPrompt: the three templates are built from
\* request.referenceAnalysis before one is drawn.
getMockLyriaPrompt(request, randomIndex, randomSeed) ==
    IF JoinThrows(request.referenceAnalysis)
    THEN Thrown("TypeError: Cannot read properties of undefined")
    ELSE Returned(
            [prompt |-> [template |-> randomIndex,
                         reference |-> Described(request.referenceAnalysis)],
             confidence |-> 8,
             reasoning |-> "Mock prompt generated based on source and reference audio analysis",
             suggestedParameters |->
                [duration |-> 10, temperature |-> 8, seed |-> randomSeed]])

\* The promptText of generateLyriaPrompt, or the throw of building it.
PromptText(request) ==
    IF JoinThrows(request.sourceAnalysis) \/ JoinThrows(request.referenceAnalysis)
    THEN Thrown("TypeError: Cannot read properties of undefined")
    ELSE Returned([source |-> Described(request.sourceAnalysis),
                   reference |-> Described(request.referenceAnalysis),
                   userRequest |-> Or(request.userPrompt, JsString(""))])

\* extractLyriaPromptFromText: the prompt found in the text, or the one of
\* generateFallbackPrompt.
extractLyriaPromptFromText(text, request, randomSeed) ==
    IF ~text.hasPrompt /\ JoinThrows(request.referenceAnalysis)
    THEN Thrown("TypeError: Cannot read properties of undefined")
    ELSE Returned(
            [prompt |-> IF text.hasPrompt THEN [found |-> "in text"]
                        ELSE [template |-> "fallback",
                              reference |-> Described(request.referenceAnalysis)],
             confidence |-> 7,
             reasoning |-> "Generated prompt based on audio analysis",
             suggestedParameters |->
                [duration |-> 10, temperature |-> 8, seed |-> randomSeed]])

\* extractInfoFromText: whatever the text holds, an analysis of confidence 0.7.
extractInfoFromText(text) ==
    JsObject([instruments |-> Strings(<<"Unknown">>),
              genre |-> JsString("Unknown"),
              confidence |-> JsNumber(7)])

\* How a promise settles.
Fulfilled(value) == [settled |-> "fulfilled", value |-> value]
Rejected(reason) == [settled |-> "rejected", reason |-> reason]
Settle(result) ==
    IF result.thrown THEN Rejected(result.message) ELSE Fulfilled(result.value)

\* The try block of either method after the hosted call: the first JSON
\* object of the text if it parses, else what extraction gives, where
\* extracted is the outcome of the extraction.
FromText(text, extracted) ==
    IF text.hasBraces /\ text.parses THEN Returned(text.parsed) ELSE extracted

\* Analyses a caller may pass, and what the hosted model may answer.
FeatureAnalysis ==
    JsObject([features |-> JsObject([instruments |-> Strings(<<"piano">>)]),
              confidence |-> JsNumber(9)])
Analyses ==
    {mockResponses[1], mockResponses[2], FeatureAnalysis,
     JsObject([instruments |-> JsString("piano, drums")]), Undefined}
LyriaPromptRequests ==
    [sourceAnalysis : Analyses, referenceAnalysis : Analyses,
     userPrompt : {Undefined, JsString("more strings")}]
AnalysisRequests ==
    [audioFile : {"audio/wav", ""}, prompt : {Undefined, JsString("describe")}]
HostedTexts ==
    [hasBraces : BOOLEAN, parses : BOOLEAN, hasPrompt : BOOLEAN,
     parsed : {mockResponses[3], JsObject([note |-> JsString("no audio")])}]
HostedOutcomes ==
    {Thrown("fetch failed")} \cup {Returned(text) : text \in HostedTexts}
MockIndexes == 0 .. 2
MaxSeed == 1
Seeds == 0 .. MaxSeed

\* analyzeAudio up to its first await: the mock answer at once when the
\* service is not initialized, else the hosted call (fileToBase64 and
\* generateContent) is under way.
GeminiAnalyzeAudio ==
    /\ geminiPc = "idle"
    /\ \E request \in AnalysisRequests : geminiRequest' = Some(request)
    /\ IF ~geminiInitialized
       THEN /\ \E randomIndex \in MockIndexes :
                  geminiOutcome' = Some(Fulfilled(getMockResponse(randomIndex)))
            /\ geminiPc' = "done"
            /\ UNCHANGED geminiContacted
       ELSE /\ geminiPc' = "analyzing"
            /\ geminiContacted' = TRUE
            /\ UNCHANGED geminiOutcome
    /\ UNCHANGED <<geminiEnv, geminiInitialized, audioVars, lyriaVars, otherVars>>

\* The rest of analyzeAudio once the hosted call has settled: the parsed
\* JSON, the extraction, or the mock answer of the catch block.
HostedAnalysisSettles ==
    /\ geminiPc = "analyzing"
    /\ \E hosted \in HostedOutcomes, randomIndex \in MockIndexes :
          geminiOutcome' =
              Some(IF hosted.thrown
                   THEN Fulfilled(getMockResponse(randomIndex))
                   ELSE Settle(FromText(hosted.value,
                                        Returned(extractInfoFromText(hosted.value)))))
    /\ geminiPc' = "done"
    /\ UNCHANGED <<geminiEnv, geminiInitialized, geminiRequest,
                   geminiContacted, audioVars, lyriaVars, otherVars>>

\* generateLyriaPrompt up to its first await: the mock prompt, outside any
\* try block, when the service is not initialized; else promptText is
\* built inside the try block, whose catch block returns the mock prompt.
GeminiGenerateLyriaPrompt ==
    /\ geminiPc = "idle"
    /\ \E request \in LyriaPromptRequests,
          randomIndex \in MockIndexes, randomSeed \in Seeds :
          LET mock == getMockLyriaPrompt(request, randomIndex, randomSeed)
          IN  /\ geminiRequest' = Some(request)
              /\ IF ~geminiInitialized \/ PromptText(request).thrown
                 THEN /\ geminiOutcome' = Some(Settle(mock))
                      /\ geminiPc' = "done"
                      /\ UNCHANGED geminiContacted
                 ELSE /\ geminiPc' = "prompting"
                      /\ geminiContacted' = TRUE
                      /\ UNCHANGED geminiOutcome
    /\ UNCHANGED <<geminiEnv, geminiInitialized, audioVars, lyriaVars, otherVars>>

\* The rest of generateLyriaPrompt once the hosted call has settled; a
\* throw inside the try block, extraction's included, reaches the catch
\* block and with it the mock prompt.
HostedPromptSettles ==
    /\ geminiPc = "prompting"
    /\ \E hosted \in HostedOutcomes,
          randomIndex \in MockIndexes, randomSeed \in Seeds :
          LET request == Get(geminiRequest)
              mock == getMockLyriaPrompt(request, randomIndex, randomSeed)
              tried ==
                  IF hosted.thrown THEN hosted
                  ELSE FromText(hosted.value,
                                extractLyriaPromptFromText(hosted.value, request,
                                                           randomSeed))
          IN  geminiOutcome' = Some(Settle(IF tried.thrown THEN mock ELSE tried))
    /\ geminiPc' = "done"
    /\ UNCHANGED <<geminiEnv, geminiInitialized, geminiRequest,
                   geminiContacted, audioVars, lyriaVars, otherVars>>

InitGemini ==
    /\ geminiEnv \in [apiKey : BOOLEAN, clientThrows : BOOLEAN]
    /\ geminiInitialized = initialize(geminiEnv)
    /\ geminiPc = "idle"
    /\ geminiRequest = None
    /\ geminiContacted = FALSE
    /\ geminiOutcome = None
    /\ AudioOff
    /\ LyriaOff
    /\ OthersOff

NextGemini ==
    \/ GeminiAnalyzeAudio
    \/ HostedAnalysisSettles
    \/ GeminiGenerateLyriaPrompt
    \/ HostedPromptSettles

SpecGemini == InitGemini /\ [][NextGemini]_vars

(***************************************************************************)
(* logToTerminal.  A call ends in one of four ways: the request to         *)
(* /api/log is answered 200, it is answered with a non-OK status, fetch    *)
(* rejects, or JSON.stringify throws on the payload.                       *)
(***************************************************************************)
LogOutcomes == {"delivered", "refused", "unreachable", "unserialisable"}

\* POST /api/log: { success: true }, or status 500 when it fails.
LogRoute(outcome) ==
    IF outcome = "delivered" THEN JsonResponse(200, [success |-> TRUE])
    ELSE JsonResponse(500, [error |-> "Failed to log"])

\* The try block: await fetch('/api/log', { ..., body: JSON.stringify(...) })
LogRequest(outcome) ==
    CASE outcome = "unserialisable"
            -> Thrown("Converting circular structure to JSON")
      [] outcome = "unreachable" -> Thrown("Failed to fetch")
      [] OTHER -> Returned(LogRoute(outcome))

\* The variant without the try/catch around the request.
logToTerminalUnguarded(outcome) ==
    LET request == LogRequest(outcome)
    IN  IF request.thrown THEN Rejected(request.message)
        ELSE Fulfilled(Undefined)

\* The promise of logToTerminal: the catch block prints the fallback line
\* and the function returns.
logToTerminal(outcome) ==
    LET request == LogRequest(outcome)
    IN  IF request.thrown THEN Fulfilled(Undefined)
        ELSE Fulfilled(Undefined)

\* The calls of one handler, none of them awaited: the promise each call
\* returned, log[message] being how the request of the call ended.
Promises(log) == [message \in DOMAIN log |-> logToTerminal(log[message])]

\* The ways the calls with the given messages can end; at most
\* MaxFailedLogs requests of a behaviour end other than delivered.
MaxFailedLogs == 1
Failed(log) == Cardinality({message \in DOMAIN log : log[message] # "delivered"})
LogRuns(messages) ==
    {log \in [messages -> LogOutcomes] :
        failedLogs + Failed(log) <= MaxFailedLogs}

(***************************************************************************)
(* useWorkflowState: the store of the studio.                              *)
(***************************************************************************)
WORKFLOW_STEPS == <<"upload_reference", "upload_desired", "generate", "results">>

initialProgress == [step \in Range(WORKFLOW_STEPS) |-> 0]

InitialWorkflow ==
    [sourceAudio |-> Null,
     referenceAudio |-> Null,
     generatedAudio |-> Null,
     sourceAudioAnalysis |-> Null,
     referenceAudioAnalysis |-> Null,
     currentStep |-> "upload_reference",
     progress |-> initialProgress,
     processing |-> [audioAnalysis |-> FALSE, generation |-> FALSE],
     error |-> Null]

setSourceAudio(state, audio) == [state EXCEPT !.sourceAudio = audio]

setReferenceAudio(state, audio) ==
    LET stored == [state EXCEPT !.referenceAudio = audio]
    IN  IF Truthy(audio)
        THEN [stored EXCEPT !.currentStep = "upload_desired",
                            !.progress["upload_reference"] = 100]
        ELSE stored

\* The variant that stores the audio and leaves the progress as it is.
setGeneratedAudioOnly(state, audio) ==
    LET stored == [state EXCEPT !.generatedAudio = audio]
    IN  IF Truthy(audio) THEN [stored EXCEPT !.currentStep = "results"]
        ELSE stored

setGeneratedAudio(state, audio) ==
    LET stored == [state EXCEPT !.generatedAudio = audio]
    IN  IF Truthy(audio)
        THEN [stored EXCEPT !.currentStep = "results",
                            !.progress["generate"] = 100,
                            !.progress["results"] = 100]
        ELSE stored

setSourceAudioAnalysis(state, analysis) ==
    [state EXCEPT !.sourceAudioAnalysis = analysis]
setReferenceAudioAnalysis(state, analysis) ==
    [state EXCEPT !.referenceAudioAnalysis = analysis]
setCurrentStep(state, step) == [state EXCEPT !.currentStep = step]
\* setProcessing({ generation: flag }), setProcessing({ audioAnalysis: flag })
setGeneration(state, flag) == [state EXCEPT !.processing.generation = flag]
setAudioAnalysis(state, flag) ==
    [state EXCEPT !.processing.audioAnalysis = flag]
setError(state, error) == [state EXCEPT !.error = error]
resetWorkflow(state) == InitialWorkflow

(***************************************************************************)
(* The studio page: SourceUploadSection, DesiredAudioSection,              *)
(* GenerateSection and ResultsSection over the store.  A text is the       *)
(* sequence of its characters; a prompt is the sequence of the pieces of   *)
(* its template, the characters of an interpolated text among them.        *)
(***************************************************************************)
\* String.prototype.trim
RECURSIVE TrimStart(_)
TrimStart(text) ==
    IF text # << >> /\ Head(text) = " " THEN TrimStart(Tail(text)) ELSE text
RECURSIVE TrimEnd(_)
TrimEnd(text) ==
    IF text # << >> /\ text[Len(text)] = " "
    THEN TrimEnd(SubSeq(text, 1, Len(text) - 1))
    ELSE text
Trim(text) == TrimEnd(TrimStart(text))

\* An AudioBuffer, as far as the studio reads it: its duration in seconds.
\* The decoded buffers the uploader of SourceUploadSection and the one of
\* DesiredAudioSection hand to onUpload, the buffer decoded from the
\* generated audio, and the mock buffer handleGenerate makes
\* (duration: generationSettings.duration).
AudioBufferOf(duration) == JsObject("duration" :> JsNumber(duration))
UploadedAudios == {AudioBufferOf(8), AudioBufferOf(12)}
DesiredAudios == {AudioBufferOf(8)}
RealAudio == AudioBufferOf(30)
MockAudio == AudioBufferOf(DefaultDuration)

\* The analyses handleAnalyzeAudio stores:
\* duration: sourceAudio?.duration || 10, duration: referenceAudio?.duration || 8
AnalysisOf(features) == [type |-> "object", features |-> features, confidence |-> 9]
mockSourceAnalysis(sourceAudio) ==
    AnalysisOf([duration |-> Or(Prop(sourceAudio, "duration"), JsNumber(10)).n,
                genre |-> "electronic rock",
                instruments |-> "electric guitar, bass guitar, drums, synthesizer",
                mood |-> "energetic", key |-> "G minor", tempo |-> "128",
                style |-> "modern electronic"])
mockReferenceAnalysis(referenceAudio) ==
    AnalysisOf([duration |-> Or(Prop(referenceAudio, "duration"), JsNumber(8)).n,
                genre |-> "classical",
                instruments |-> "piano, strings, acoustic guitar, flute",
                mood |-> "calm", key |-> "C major", tempo |-> "90",
                style |-> "cinematic classical"])

\* const canGenerate = sourceAudio && referenceAudio && !generatedAudio
canGenerate(state) ==
    /\ Truthy(state.sourceAudio)
    /\ Truthy(state.referenceAudio)
    /\ ~Truthy(state.generatedAudio)

\* handleGenerate: the prompt.
defaultPrompt ==
    <<"Create a musical piece with professional audio quality, clear instrument separation, and harmonic progression.">>

basePrompt(source, desired) ==
    <<"Transform this ", source.genre, " melody and chord progression from ",
      source.instruments, " to ", desired.instruments,
      ". Original characteristics: - Melody style: ",
      source.mood, source.key, " at ", source.tempo, " BPM",
      " - Musical structure: ", source.style,
      " Target transformation: - Use ", desired.style, " production style">>

GeneratePrompt(state, userPrompt) ==
    IF Truthy(state.sourceAudioAnalysis) /\ Truthy(state.referenceAudioAnalysis)
    THEN LET source == state.sourceAudioAnalysis.features
             desired == state.referenceAudioAnalysis.features
         IN  IF Trim(userPrompt) # << >>
             THEN basePrompt(source, desired)
                    \o <<"User's specific intent: ">> \o userPrompt
                    \o <<"Please incorporate the user's specific requirements while maintaining the core musical structure.">>
             ELSE basePrompt(source, desired)
                    \o <<"Focus on maintaining the original musical content while transforming the sound and timbre.">>
    ELSE defaultPrompt

\* body: JSON.stringify({ prompt, duration: generationSettings.duration,
\*                        temperature: 0.8 })
GenerateBody(prompt) ==
    [prompt |-> JsString(prompt),
     duration |-> JsNumber(DefaultDuration),
     seed |-> Undefined,
     temperature |-> JsNumber(DefaultTemperature)]

\* The messages handleGenerate logs before the request.
PromptMessages(state, userPrompt) ==
    IF Truthy(state.sourceAudioAnalysis) /\ Truthy(state.referenceAudioAnalysis)
    THEN (IF Trim(userPrompt) # << >>
          THEN {"Incorporating user intent into prompt"} ELSE {})
         \cup {"Generated hybrid transformation prompt"}
    ELSE {}

\* POST /api/lyria/generate for the body, replicate.run ending as run; and
\* the messages the route logs.
GenerateRoute(body, run, random) ==
    LET result == generateMusic(LyriaRequest(body), run, random)
    IN  IF result.thrown THEN LyriaError(result.message)
        ELSE LyriaSuccess(result.value)
RouteMessages(response) ==
    {"Starting music generation request",
     IF response.status = 200 THEN "Music generation completed successfully"
     ELSE "Music generation failed"}

\* result.data.audio_url && typeof result.data.audio_url === 'string'
HasAudioUrl(response) ==
    /\ Truthy(response.body.data.audio_url)
    /\ response.body.data.audio_url.type = "string"

\* The messages handleGenerate logs once the response is there.
ResponseMessages(response) ==
    IF response.status = 200
    THEN {"Generation completed successfully"}
         \cup (IF HasAudioUrl(response) THEN {}
               ELSE {"No valid audio URL returned from Lyria"})
    ELSE {}

\* The variant whose catch stores no error.
GenerationFailedSilently(state) == setGeneration(state, FALSE)

\* handleGenerate: catch and finally.
GenerationFailed(state) ==
    setGeneration(setError(state, JsString("Generation failed. Please try again.")),
                  FALSE)

\* How replicate.run ends in the route.
ReplicateRuns ==
    {Returned(output) :
        output \in {AudioUrl, FileOutput(AudioUrl), JsArray(<<AudioUrl>>),
                    JsArray(<< >>), JsObject("url" :> JsNumber(1)), Null}}
       \cup {Thrown("Prediction failed")}

UserPrompts == {<< >>, <<"j", "a", "z", "z", " ">>}

\* The handlers.  Each is given log, how the request of each of its
\* logToTerminal calls ends, and says what it leaves in the store, in the
\* section and in the promises of its calls.

\* AudioUploader.handleDrop in the dropzone of a section ("source" or
\* "desired"), up to its await of fileToAudioBuffer; the dropzone is
\* disabled while a file is processed.
FileDropped(zone) ==
    /\ ~section.decoding[zone]
    /\ section' = [section EXCEPT !.decoding[zone] = TRUE]
    /\ logPromises' = Promises(<< >>)
    /\ UNCHANGED workflow

\* fileToAudioBuffer rejects: the uploader shows the error.
DecodeFailed(zone) ==
    /\ section.decoding[zone]
    /\ section' = [section EXCEPT !.decoding[zone] = FALSE]
    /\ logPromises' = Promises(<< >>)
    /\ UNCHANGED workflow

\* SourceUploadSection.handleUpload, called once the file is decoded.
SourceMessages ==
    {"Source audio uploaded successfully", "Moving to reference upload step"}
SourceUploaded(audio, log) ==
    /\ section.decoding["source"]
    /\ section' = [section EXCEPT !.decoding["source"] = FALSE]
    /\ workflow' = setSourceAudio(workflow, audio)
    /\ logPromises' = Promises(log)

\* !useWorkflowState.getState().sourceAudio && 'opacity-50
\* pointer-events-none': DesiredAudioSection takes a drop while there is a
\* source audio.
DesiredEnabled(state) == Truthy(state.sourceAudio)

\* DesiredAudioSection.handleUpload, called once the file is decoded.
DesiredMessages ==
    {"Desired audio uploaded successfully", "Moving to generate step"}
DesiredUploaded(audio, log) ==
    /\ section.decoding["desired"]
    /\ section' = [section EXCEPT !.decoding["desired"] = FALSE]
    /\ workflow' = setCurrentStep(setReferenceAudio(workflow, audio), "generate")
    /\ logPromises' = Promises(log)

\* The textarea of GenerateSection.
IntentTyped(text) ==
    /\ canGenerate(workflow)
    /\ section.userPrompt # text
    /\ section' = [section EXCEPT !.userPrompt = text]
    /\ logPromises' = Promises(<< >>)
    /\ UNCHANGED workflow

\* GenerateSection.handleAnalyzeAudio
AnalysisMessages(state) ==
    (IF Truthy(state.sourceAudioAnalysis) THEN {}
     ELSE {"Google Gemini analyzed source audio"})
    \cup (IF Truthy(state.referenceAudioAnalysis) THEN {}
          ELSE {"Google Gemini analyzed reference audio"})
    \cup {"Google Gemini audio analysis completed successfully"}
handleAnalyzeAudio(state) ==
    IF ~Truthy(state.sourceAudio) \/ ~Truthy(state.referenceAudio) THEN state
    ELSE LET started == setAudioAnalysis(state, TRUE)
             source ==
                 IF Truthy(state.sourceAudioAnalysis) THEN started
                 ELSE setSourceAudioAnalysis(started,
                                             mockSourceAnalysis(state.sourceAudio))
             reference ==
                 IF Truthy(state.referenceAudioAnalysis) THEN source
                 ELSE setReferenceAudioAnalysis(source,
                                                mockReferenceAnalysis(state.referenceAudio))
         IN  setAudioAnalysis(reference, FALSE)
\* disabled={!canGenerate || processing.audioAnalysis}
AudioAnalyzed(log) ==
    /\ canGenerate(workflow)
    /\ ~workflow.processing.audioAnalysis
    /\ workflow' = handleAnalyzeAudio(workflow)
    /\ logPromises' = Promises(log)
    /\ UNCHANGED section

\* The variant of the button that is not disabled during a generation.
GenerateDisabledOnceGenerated(state) == ~canGenerate(state)

\* disabled={!canGenerate || processing.generation}
GenerateDisabled(state) == ~canGenerate(state) \/ state.processing.generation

\* The calls of handleGenerate followed at a time.
MaxCalls == 2

\* GenerateSection.handleGenerate up to its await of the request: what a
\* call leaves in the store and in the section.  calls holds the locals of
\* the calls that have not returned, oldest first.
handleGenerate(state, local) ==
    IF ~Truthy(state.sourceAudio) \/ ~Truthy(state.referenceAudio)
    THEN [workflow |-> state, section |-> local]
    ELSE [workflow |-> setGeneration(state, TRUE),
          section |->
             [local EXCEPT
                 !.calls =
                    Append(@, [pc |-> "requested",
                               pressed |-> local.userPrompt,
                               request |->
                                  GenerateBody(GeneratePrompt(state,
                                                              local.userPrompt))])]]

GeneratePressed(log) ==
    /\ ~GenerateDisabled(workflow)
    /\ Len(section.calls) < MaxCalls
    /\ workflow' = handleGenerate(workflow, section).workflow
    /\ section' = handleGenerate(workflow, section).section
    /\ logPromises' = Promises(log)

\* Call i of handleGenerate returns: its locals are gone.
Returns(local, i) ==
    [local EXCEPT !.calls = SubSeq(@, 1, i - 1) \o SubSeq(@, i + 1, Len(@))]

\* The calls of handleGenerate awaiting the request, or the download.
CallsAt(pc) == {i \in DOMAIN section.calls : section.calls[i].pc = pc}

\* The route answers call i, and handleGenerate goes on to the download
\* or fails.
GenerateAnswered(i, run, random, log) ==
    /\ i \in CallsAt("requested")
    /\ LET response == GenerateRoute(section.calls[i].request, run, random)
       IN  IF response.status = 200 /\ HasAudioUrl(response)
           THEN /\ section' = [section EXCEPT !.calls[i].pc = "downloading"]
                /\ UNCHANGED workflow
           ELSE /\ section' = Returns(section, i)
                /\ workflow' = GenerationFailed(workflow)
    /\ logPromises' = Promises(log)

\* fetch('/api/lyria/generate') of call i rejects.
GenerateUnanswered(i) ==
    /\ i \in CallsAt("requested")
    /\ section' = Returns(section, i)
    /\ workflow' = GenerationFailed(workflow)
    /\ logPromises' = Promises(<< >>)

\* The download of call i ends: the decoded audio, or the mock audio of
\* the inner catch, is stored and the step set.
DownloadMessages == {"Moving to results step"}
Downloaded(i, audio, log) ==
    /\ i \in CallsAt("downloading")
    /\ section' = Returns(section, i)
    /\ workflow' =
          setGeneration(setCurrentStep(setGeneratedAudio(workflow, audio),
                                       "results"),
                        FALSE)
    /\ logPromises' = Promises(log)

\* The button of ResultsSection, shown once there is generated audio.
WorkflowReset ==
    /\ Truthy(workflow.generatedAudio)
    /\ workflow' = resetWorkflow(workflow)
    /\ logPromises' = Promises(<< >>)
    /\ UNCHANGED section

\* The messages the route and handleGenerate log for an answer.
AnswerMessages(i, run, random) ==
    LET response == GenerateRoute(section.calls[i].request, run, random)
    IN  RouteMessages(response) \cup ResponseMessages(response)

\* The steps of the studio.  Each records the calls of its handler.
Logged(log) ==
    /\ logged' = log
    /\ failedLogs' = failedLogs + Failed(log)

DropSource ==
    /\ FileDropped("source") /\ Logged(<< >>)
    /\ UNCHANGED <<audioVars, lyriaVars, geminiVars, uploadVars, promptVars, execVars>>

DropDesired ==
    /\ DesiredEnabled(workflow)
    /\ FileDropped("desired") /\ Logged(<< >>)
    /\ UNCHANGED <<audioVars, lyriaVars, geminiVars, uploadVars, promptVars, execVars>>

DecodeFails ==
    /\ \E zone \in {"source", "desired"} :
          DecodeFailed(zone) /\ Logged(<< >>)
    /\ UNCHANGED <<audioVars, lyriaVars, geminiVars, uploadVars, promptVars, execVars>>

UploadSource ==
    /\ \E audio \in UploadedAudios, log \in LogRuns(SourceMessages) :
          SourceUploaded(audio, log) /\ Logged(log)
    /\ UNCHANGED <<audioVars, lyriaVars, geminiVars, uploadVars, promptVars, execVars>>

UploadDesired ==
    /\ \E audio \in DesiredAudios, log \in LogRuns(DesiredMessages) :
          DesiredUploaded(audio, log) /\ Logged(log)
    /\ UNCHANGED <<audioVars, lyriaVars, geminiVars, uploadVars, promptVars, execVars>>

TypeIntent ==
    /\ \E text \in UserPrompts : IntentTyped(text) /\ Logged(<< >>)
    /\ UNCHANGED <<audioVars, lyriaVars, geminiVars, uploadVars, promptVars, execVars>>

HandleAnalyzeAudio ==
    /\ \E log \in LogRuns(AnalysisMessages(workflow)) :
          AudioAnalyzed(log) /\ Logged(log)
    /\ UNCHANGED <<audioVars, lyriaVars, geminiVars, uploadVars, promptVars, execVars>>

HandleGenerate ==
    /\ \E log \in LogRuns(PromptMessages(workflow, section.userPrompt)) :
          GeneratePressed(log) /\ Logged(log)
    /\ UNCHANGED <<audioVars, lyriaVars, geminiVars, uploadVars, promptVars, execVars>>

GenerateResponds ==
    /\ \E i \in CallsAt("requested"), run \in ReplicateRuns, random \in Randoms :
          \E log \in LogRuns(AnswerMessages(i, run, random)) :
             GenerateAnswered(i, run, random, log) /\ Logged(log)
    /\ UNCHANGED <<audioVars, lyriaVars, geminiVars, uploadVars, promptVars, execVars>>

GenerateFetchRejects ==
    /\ \E i \in CallsAt("requested") : GenerateUnanswered(i)
    /\ Logged(<< >>)
    /\ UNCHANGED <<audioVars, lyriaVars, geminiVars, uploadVars, promptVars, execVars>>

DownloadSettles ==
    /\ \E i \in CallsAt("downloading"), audio \in {RealAudio, MockAudio},
          log \in LogRuns(DownloadMessages) :
          Downloaded(i, audio, log) /\ Logged(log)
    /\ UNCHANGED <<audioVars, lyriaVars, geminiVars, uploadVars, promptVars, execVars>>

ResetWorkflow ==
    /\ WorkflowReset /\ Logged(<< >>)
    /\ UNCHANGED <<audioVars, lyriaVars, geminiVars, uploadVars, promptVars, execVars>>

InitStudio ==
    /\ workflow = InitialWorkflow
    /\ section = [userPrompt |-> << >>, calls |-> << >>,
                  decoding |-> [source |-> FALSE, desired |-> FALSE]]
    /\ logged = << >>
    /\ logPromises = << >>
    /\ failedLogs = 0
    /\ AudioOff
    /\ LyriaOff
    /\ GeminiOff
    /\ UploadOff
    /\ PromptOff
    /\ ExecOff

NextStudio ==
    \/ DropSource
    \/ DropDesired
    \/ DecodeFails
    \/ UploadSource
    \/ UploadDesired
    \/ TypeIntent
    \/ HandleAnalyzeAudio
    \/ HandleGenerate
    \/ GenerateResponds
    \/ GenerateFetchRejects
    \/ DownloadSettles
    \/ ResetWorkflow

SpecStudio == InitStudio /\ [][NextStudio]_vars

\* Every pending request of handleGenerate settles: the request to
\* /api/lyria/generate is answered or rejects, and the download and
\* decoding of the generated audio end.
FairStudio ==
    /\ SpecStudio
    /\ WF_vars(GenerateResponds \/ GenerateFetchRejects)
    /\ WF_vars(DownloadSettles)

(***************************************************************************)
(* AudioUtils.validateAudioFile and AudioUploader.  A file is a record     *)
(* [type, size], type its MIME type and size its length in bytes.          *)
(***************************************************************************)
validFormats == {"audio/wav", "audio/mpeg", "audio/flac", "audio/mp4", "audio/ogg"}
maxSize == 10 * 1024 * 1024

validateAudioFile(file) ==
    IF file.type \notin validFormats
    THEN [valid |-> FALSE,
          error |-> JsString("Unsupported audio format. Please use WAV, MP3, FLAC, M4A, or OGG files.")]
    ELSE IF file.size > maxSize
    THEN [valid |-> FALSE,
          error |-> JsString("File size too large. Please use files smaller than 10MB.")]
    ELSE [valid |-> TRUE, error |-> Undefined]

\* The props the sections of the studio give their AudioUploader.
UploaderProps ==
    [accept |-> {"audio/wav", "audio/mp3", "audio/flac"},
     maxSize |-> 20 * 1024 * 1024]

\* useDropzone({ accept, maxSize, ... }): the files that reach onDrop as
\* acceptedFiles; the accept map lists MIME types with no extensions.
DropzoneAccepts(file, props) ==
    /\ file.type \in props.accept
    /\ file.size <= props.maxSize

\* The files dropped: every type a studio uploader or validateAudioFile
\* names and one that is no audio, at sizes around both limits.
FileTypes == validFormats \cup UploaderProps.accept \cup {"image/png"}
FileSizes == {1024, maxSize, maxSize + 1, UploaderProps.maxSize + 1}
Files == [type : FileTypes, size : FileSizes]

IdleUploader ==
    [isProcessing |-> FALSE, error |-> Null, uploadedFile |-> Null,
     dropped |-> Null, passed |-> Null]

\* handleDrop up to its await of fileToAudioBuffer; passed is the file the
\* handler of the last drop gave to onUpload.
Drop ==
    /\ ~uploader.isProcessing
    /\ \E file \in Files :
          LET seen == [uploader EXCEPT !.dropped = file, !.passed = Null]
              validation == validateAudioFile(file)
          IN  IF ~DropzoneAccepts(file, UploaderProps)
              THEN uploader' = seen
              ELSE IF ~validation.valid
              THEN uploader' = [seen EXCEPT !.error = Or(validation.error,
                                                          JsString("Invalid file"))]
              ELSE uploader' = [seen EXCEPT !.error = Null,
                                            !.isProcessing = TRUE]
    /\ UNCHANGED <<audioVars, lyriaVars, geminiVars, studioVars, promptVars, execVars>>

\* fileToAudioBuffer resolves: setUploadedFile(file); onUpload(file, buffer)
DecodeResolves ==
    /\ uploader.isProcessing
    /\ uploader' = [uploader EXCEPT !.uploadedFile = uploader.dropped,
                                    !.passed = uploader.dropped,
                                    !.isProcessing = FALSE]
    /\ UNCHANGED <<audioVars, lyriaVars, geminiVars, studioVars, promptVars, execVars>>

\* fileToAudioBuffer rejects: the catch block.
DecodeRejects ==
    /\ uploader.isProcessing
    /\ uploader' = [uploader EXCEPT
                       !.error = JsString("Unable to decode audio data"),
                       !.isProcessing = FALSE]
    /\ UNCHANGED <<audioVars, lyriaVars, geminiVars, studioVars, promptVars, execVars>>

InitUpload ==
    /\ uploader = IdleUploader
    /\ AudioOff
    /\ LyriaOff
    /\ GeminiOff
    /\ StudioOff
    /\ PromptOff
    /\ ExecOff

NextUpload == Drop \/ DecodeResolves \/ DecodeRejects

SpecUpload == InitUpload /\ [][NextUpload]_vars

(***************************************************************************)
(* POST /api/prompt/generate.  The route's call of generateLyriaPrompt is  *)
(* recorded in geminiRequest and its settling in geminiOutcome.            *)
(***************************************************************************)
\* if (!sourceAudioAnalysis || !referenceAudioAnalysis)
AnalysisMissing(body) ==
    ~Truthy(body.sourceAudioAnalysis) \/ ~Truthy(body.referenceAudioAnalysis)

PromptRefused ==
    JsonResponse(400,
        [success |-> FALSE,
         error |-> "Both source and reference audio analysis are required"])

\* The request the route hands to generateLyriaPrompt.
PromptRequest(body) ==
    [sourceAnalysis |-> body.sourceAudioAnalysis,
     referenceAnalysis |-> body.referenceAudioAnalysis,
     userPrompt |-> Or(body.userPrompt, Undefined)]

\* How generateLyriaPrompt settles for a request, given the draws of the
\* mock prompt and how the hosted call ends if it is made.
LyriaPromptOutcome(request, initialized, hosted, randomIndex, randomSeed) ==
    LET mock == getMockLyriaPrompt(request, randomIndex, randomSeed)
        tried ==
            IF hosted.thrown THEN hosted
            ELSE FromText(hosted.value,
                          extractLyriaPromptFromText(hosted.value, request,
                                                     randomSeed))
    IN  IF ~initialized \/ PromptText(request).thrown THEN Settle(mock)
        ELSE Settle(IF tried.thrown THEN mock ELSE tried)

\* generatedPrompt.prompt.length, generatedPrompt.reasoning.substring(...)
\* and generatedPrompt.suggestedParameters.duration throw on an answer
\* without these properties.
PromptReadThrows(generatedPrompt) ==
    {"prompt", "reasoning", "suggestedParameters"} \ DOMAIN generatedPrompt # {}

\* The response once generateLyriaPrompt has settled.
PromptAnswer(outcome) ==
    IF outcome.settled = "rejected"
    THEN JsonResponse(500, [success |-> FALSE, error |-> outcome.reason])
    ELSE IF PromptReadThrows(outcome.value)
    THEN JsonResponse(500,
            [success |-> FALSE,
             error |-> "TypeError: Cannot read properties of undefined"])
    ELSE JsonResponse(200, [success |-> TRUE, data |-> outcome.value])

PromptBodies ==
    [sourceAudioAnalysis : Analyses,
     referenceAudioAnalysis : Analyses,
     userPrompt : {Undefined, JsString(""), JsString("more strings")},
     workflowType : {Undefined, JsString("ai_generation")}]

\* The handler up to its await of generateLyriaPrompt.
PromptPost ==
    /\ promptResponse = None
    /\ geminiRequest = None
    /\ IF AnalysisMissing(promptBody)
       THEN /\ promptResponse' = Some(PromptRefused)
            /\ UNCHANGED geminiRequest
       ELSE /\ geminiRequest' = Some(PromptRequest(promptBody))
            /\ UNCHANGED promptResponse
    /\ UNCHANGED <<promptBody, geminiEnv, geminiInitialized, geminiPc,
                   geminiContacted, geminiOutcome, audioVars, lyriaVars,
                   studioVars, uploadVars, execVars>>

\* generateLyriaPrompt settles and the handler answers.
PromptSettles ==
    /\ geminiRequest # None
    /\ geminiOutcome = None
    /\ \E hosted \in HostedOutcomes,
          randomIndex \in MockIndexes, randomSeed \in Seeds :
          LET outcome == LyriaPromptOutcome(Get(geminiRequest), geminiInitialized,
                                            hosted, randomIndex, randomSeed)
          IN  /\ geminiOutcome' = Some(outcome)
              /\ promptResponse' = Some(PromptAnswer(outcome))
    /\ UNCHANGED <<promptBody, geminiEnv, geminiInitialized, geminiPc,
                   geminiRequest, geminiContacted, audioVars, lyriaVars,
                   studioVars, uploadVars, execVars>>

InitPrompt ==
    /\ promptBody \in PromptBodies
    /\ promptResponse = None
    /\ geminiEnv \in [apiKey : BOOLEAN, clientThrows : BOOLEAN]
    /\ geminiInitialized = initialize(geminiEnv)
    /\ geminiPc = "off"
    /\ geminiRequest = None
    /\ geminiContacted = FALSE
    /\ geminiOutcome = None
    /\ AudioOff
    /\ LyriaOff
    /\ StudioOff
    /\ UploadOff
    /\ ExecOff

NextPrompt == PromptPost \/ PromptSettles

SpecPrompt == InitPrompt /\ [][NextPrompt]_vars

(***************************************************************************)
(* The transform on its own.                                               *)
(***************************************************************************)
InitFft ==
    /\ inSignal \in Frames
    /\ outMagnitude = None
    /\ inBuffer = NoBuffer
    /\ outAnalysis = None
    /\ prevAnalysis = None
    /\ LyriaOff
    /\ GeminiOff
    /\ OthersOff

Fft ==
    /\ outMagnitude = None
    /\ outMagnitude' = Some(fft(inSignal))
    /\ UNCHANGED <<inSignal, inBuffer, outAnalysis, prevAnalysis, lyriaVars, geminiVars, otherVars>>

NextFft == Fft

SpecFft == InitFft /\ [][NextFft]_vars

(***************************************************************************)
(* The feature extractor.                                                  *)
(***************************************************************************)
InitAudio ==
    /\ inBuffer \in AudioBuffers
    /\ outAnalysis = None
    /\ prevAnalysis = None
    /\ inSignal = NoFrame
    /\ outMagnitude = None
    /\ LyriaOff
    /\ GeminiOff
    /\ OthersOff

\* The variant in which a frame is a view of the channel and the transform
\* stores its magnitudes in the frame it was given: the first frame of
\* channel 0 holds its own spectrum after the call.
AnalyzeAudioInPlace ==
    /\ prevAnalysis = None
    /\ outAnalysis' = Some(analyzeAudio(inBuffer))
    /\ prevAnalysis' = outAnalysis
    /\ LET channelData == getChannelData(inBuffer, 0)
           written ==
               IF Len0(channelData) < fftSize THEN channelData
               ELSE LET magnitude == fft(Slice(channelData, 0, fftSize))
                    IN  NewArray(LAMBDA i : IF i < fftSize THEN magnitude[i]
                                            ELSE channelData[i],
                                 Len0(channelData))
       IN  inBuffer' =
               [inBuffer EXCEPT !.channelData =
                   [inBuffer.channelData EXCEPT ![0] = written]]
    /\ UNCHANGED <<inSignal, outMagnitude, lyriaVars, geminiVars, otherVars>>

\* A call of analyzeAudio on the buffer; at most two calls are followed.
\* The call writes only to arrays it allocates itself (the copy slice()
\* returns, fft's output and magnitude arrays), so the buffer stays as it is.
AnalyzeAudio ==
    /\ prevAnalysis = None
    /\ outAnalysis' = Some(analyzeAudio(inBuffer))
    /\ prevAnalysis' = outAnalysis
    /\ UNCHANGED <<inBuffer, inSignal, outMagnitude, lyriaVars, geminiVars, otherVars>>

NextAudio == AnalyzeAudio

SpecAudio == InitAudio /\ [][NextAudio]_vars

(***************************************************************************)
(* The feature functions statement by statement.  exec follows one call of *)
(* calculateSpectralCentroid, calculateMFCC or detectPolyphony on inBuffer *)
(* through its frame loop, the loops of fft and the loop over the bins:    *)
(* each step is one test of a loop condition with the body or the exit it  *)
(* leads to.  inSignal is the frame the call handed to fft, outMagnitude   *)
(* what fft returned for it.                                               *)
(***************************************************************************)
FeatureFunctions ==
    {"calculateSpectralCentroid", "calculateMFCC", "detectPolyphony"}

\* const fftSize = 2048 / const frameSize = 1024 / const frameSize = 2048
FrameSizeOf(fn) == IF fn = "calculateMFCC" THEN frameSize ELSE fftSize

\* The variant whose frame loop runs while a sample is left.
FrameFitsAnySample(length, size, i) == i < length

\* i < channelData.length - size: the condition of the three frame loops.
FrameFits(length, size, i) == i < length - size

\* The locals of a call at its first statement: i, the loop variable of
\* the frame loop; of fft, output, magnitude, k (its i), j, bit, length,
\* m (the j of the butterflies) and w; b, the j of the loop over the bins;
\* and the sums and counts of the three functions.
Entered(fn) ==
    [fn |-> fn, pc |-> "frames", i |-> 0, calls |-> 0,
     output |-> << >>, magnitude |-> << >>,
     k |-> 0, j |-> 0, bit |-> 0, length |-> 0, m |-> 0, w |-> CReal(1),
     b |-> 0, weightedSum |-> 0, magnitudeSum |-> 0, max |-> 0, peakCount |-> 0,
     totalCentroid |-> Num(0), frameCount |-> 0,
     mfccFeatures |-> << >>,
     polyphonicFrames |-> 0, totalFrames |-> 0,
     result |-> None]

\* The loop over the bins of a frame: where it starts,
BinLoopStarts(locals) ==
    CASE locals.fn = "calculateSpectralCentroid" ->
            [locals EXCEPT !.b = 0, !.weightedSum = 0, !.magnitudeSum = 0]
      [] locals.fn = "calculateMFCC" -> [locals EXCEPT !.b = 0]
      [] OTHER -> [locals EXCEPT !.b = 1, !.peakCount = 0,
                                 !.max = MathMax(locals.magnitude)]

\* its condition,
BinLoopTest(locals) ==
    CASE locals.fn = "calculateSpectralCentroid" ->
            2 * locals.b < Len0(locals.magnitude)
      [] locals.fn = "calculateMFCC" -> locals.b < mfccCoeffs
      [] OTHER -> locals.b < Len0(locals.magnitude) - 1

\* its body with j++,
BinLoopBody(locals, sampleRate) ==
    LET magnitude == locals.magnitude
        stepped == [locals EXCEPT !.b = @ + 1]
    IN  CASE locals.fn = "calculateSpectralCentroid" ->
                LET freq == Quot(locals.b * sampleRate, Len0(magnitude))
                    mag == magnitude[locals.b]
                IN  [stepped EXCEPT !.weightedSum = @ + Prod(freq, mag),
                                    !.magnitudeSum = @ + mag]
          [] locals.fn = "calculateMFCC" ->
                [stepped EXCEPT
                    !.mfccFeatures =
                        Append(@, hzToMel(Quot(locals.b * sampleRate,
                                               Len0(magnitude))))]
          [] OTHER ->
                [stepped EXCEPT
                    !.peakCount =
                        IF IsPeak(magnitude, locals.max, locals.b) THEN @ + 1
                        ELSE @]

\* and the statements of the frame loop after it.
BinLoopLeft(locals) ==
    CASE locals.fn = "calculateSpectralCentroid" ->
            IF FrameIsCounted(locals.magnitudeSum)
            THEN [locals EXCEPT
                    !.totalCentroid =
                        Plus(@, Div(locals.weightedSum, locals.magnitudeSum)),
                    !.frameCount = @ + 1]
            ELSE locals
      [] locals.fn = "calculateMFCC" -> locals
      [] OTHER ->
            [locals EXCEPT
                !.polyphonicFrames =
                    IF IsPolyphonicFrame(locals.peakCount) THEN @ + 1 ELSE @,
                !.totalFrames = @ + 1]

\* The return statement of the function.
ReturnValue(locals) ==
    CASE locals.fn = "calculateSpectralCentroid" ->
            IF locals.frameCount > 0
            THEN IF locals.totalCentroid.nan THEN NaN
                 ELSE Div(locals.totalCentroid.v, locals.frameCount * Unit)
            ELSE Num(0)
      [] locals.fn = "calculateMFCC" -> Take(locals.mfccFeatures, mfccCoeffs)
      [] OTHER -> PolyphonyVerdict(locals.polyphonicFrames, locals.totalFrames)

\* A step of exec that leaves the buffer and the frame alone.
ExecSteps(locals) ==
    /\ exec' = locals
    /\ UNCHANGED <<audioVars, lyriaVars, geminiVars, studioVars, uploadVars,
                   promptVars>>

\* The frame loop takes another frame and calls fft:
\* const output = new Float32Array(N * 2)
FrameLoopRuns ==
    /\ exec.pc = "frames"
    /\ LET channelData == getChannelData(inBuffer, 0)
           size == FrameSizeOf(exec.fn)
           frame == Slice(channelData, exec.i, exec.i + size)
       IN  /\ FrameFits(Len0(channelData), size, exec.i)
           /\ inSignal' = frame
           /\ exec' = [exec EXCEPT
                         !.pc = "copy", !.calls = @ + 1, !.k = 0,
                         !.output = [n \in DOMAIN frame |-> CZero]]
    /\ outMagnitude' = None
    /\ UNCHANGED <<inBuffer, outAnalysis, prevAnalysis, lyriaVars, geminiVars,
                   studioVars, uploadVars, promptVars>>

\* The frame loop ends and the function returns.
FrameLoopEnds ==
    /\ exec.pc = "frames"
    /\ ~FrameFits(Len0(getChannelData(inBuffer, 0)), FrameSizeOf(exec.fn),
                  exec.i)
    /\ ExecSteps([exec EXCEPT !.pc = "returned",
                              !.result = Some(ReturnValue(exec))])

\* for (let i = 0; i < N; i++) { output[i * 2] = signal[i]; ... }
CopyLoopRuns ==
    /\ exec.pc = "copy"
    /\ exec.k < Len0(inSignal)
    /\ ExecSteps([exec EXCEPT !.output[exec.k] = CReal(inSignal[exec.k]),
                              !.k = @ + 1])

\* let j = 0; for (let i = 1; ...
CopyLoopEnds ==
    /\ exec.pc = "copy"
    /\ ~(exec.k < Len0(inSignal))
    /\ ExecSteps([exec EXCEPT !.pc = "permute", !.j = 0, !.k = 1])

\* for (let i = 1; i < N; i++) { let bit = N >> 1
PermuteLoopRuns ==
    /\ exec.pc = "permute"
    /\ exec.k < Len0(inSignal)
    /\ ExecSteps([exec EXCEPT !.pc = "probe", !.bit = Len0(inSignal) \div 2])

\* The permutation is done: for (let length = 2; ...
PermuteLoopEnds ==
    /\ exec.pc = "permute"
    /\ ~(exec.k < Len0(inSignal))
    /\ ExecSteps([exec EXCEPT !.pc = "stages", !.length = 2])

\* while (j & bit) { j ^= bit; bit >>= 1 }
ProbeLoopRuns ==
    /\ exec.pc = "probe"
    /\ BitAnd(exec.j, exec.bit) # 0
    /\ ExecSteps([exec EXCEPT !.j = BitXor(@, exec.bit), !.bit = @ \div 2])

\* j ^= bit; if (i < j) { swap }; i++
ProbeLoopEnds ==
    /\ exec.pc = "probe"
    /\ BitAnd(exec.j, exec.bit) = 0
    /\ LET j == BitXor(exec.j, exec.bit)
       IN  ExecSteps([exec EXCEPT
                        !.pc = "permute", !.j = j, !.k = @ + 1,
                        !.output = IF exec.k < j THEN Swap(@, exec.k, j) ELSE @])

\* for (let length = 2; length <= N; length <<= 1) { for (let i = 0; ...
StageLoopRuns ==
    /\ exec.pc = "stages"
    /\ exec.length <= Len0(inSignal)
    /\ ExecSteps([exec EXCEPT !.pc = "blocks", !.k = 0])

\* The stages are done: const magnitude = new Float32Array(N)
StageLoopEnds ==
    /\ exec.pc = "stages"
    /\ ~(exec.length <= Len0(inSignal))
    /\ ExecSteps([exec EXCEPT !.pc = "magnitudes", !.k = 0,
                              !.magnitude = [n \in DOMAIN inSignal |-> 0]])

\* for (let i = 0; i < N; i += length) { let w_real = 1; let w_imag = 0
BlockLoopRuns ==
    /\ exec.pc = "blocks"
    /\ exec.k < Len0(inSignal)
    /\ ExecSteps([exec EXCEPT !.pc = "butterflies", !.m = 0, !.w = CReal(1)])

\* The blocks of the stage are done: length <<= 1
BlockLoopEnds ==
    /\ exec.pc = "blocks"
    /\ ~(exec.k < Len0(inSignal))
    /\ ExecSteps([exec EXCEPT !.pc = "stages", !.length = 2 * @])

\* for (let j = 0; j < length / 2; j++): one butterfly, and the next w.
ButterflyLoopRuns ==
    /\ exec.pc = "butterflies"
    /\ exec.m < exec.length \div 2
    /\ ExecSteps([exec EXCEPT
                    !.output = Butterfly(@, exec.k, exec.m, exec.length \div 2,
                                         exec.w),
                    !.w = CMul(@, Wlen(exec.length)),
                    !.m = @ + 1])

\* The block is done: i += length
ButterflyLoopEnds ==
    /\ exec.pc = "butterflies"
    /\ ~(exec.m < exec.length \div 2)
    /\ ExecSteps([exec EXCEPT !.pc = "blocks", !.k = @ + exec.length])

\* for (let i = 0; i < N; i++) { magnitude[i] = Math.sqrt(...) }
MagnitudeLoopRuns ==
    /\ exec.pc = "magnitudes"
    /\ exec.k < Len0(inSignal)
    /\ ExecSteps([exec EXCEPT !.magnitude[exec.k] = Magnitude(exec.output[exec.k]),
                              !.k = @ + 1])

\* fft returns magnitude, and the loop over the bins starts.
MagnitudeLoopEnds ==
    /\ exec.pc = "magnitudes"
    /\ ~(exec.k < Len0(inSignal))
    /\ outMagnitude' = Some(exec.magnitude)
    /\ exec' = [BinLoopStarts(exec) EXCEPT !.pc = "bins"]
    /\ UNCHANGED <<inBuffer, outAnalysis, prevAnalysis, inSignal, lyriaVars,
                   geminiVars, studioVars, uploadVars, promptVars>>

\* for (let j = ...; j < ...; j++)
BinLoopRuns ==
    /\ exec.pc = "bins"
    /\ BinLoopTest(exec)
    /\ ExecSteps(BinLoopBody(exec, inBuffer.sampleRate))

\* The bins are done; the rest of the body of the frame loop; i += hopSize
BinLoopEnds ==
    /\ exec.pc = "bins"
    /\ ~BinLoopTest(exec)
    /\ ExecSteps([BinLoopLeft(exec) EXCEPT !.pc = "frames", !.i = @ + hopSize])

\* The buffers the calls are followed on: too short for a frame, and of
\* every length around a whole number of hops up to MaxExecHops after the
\* first frame.
MaxExecHops == 2
ExecLengths ==
    {0, frameSize, frameSize + 1}
    \cup {fftSize + h * hopSize + r : h \in 0 .. MaxExecHops, r \in 0 .. 1}
ExecBuffers == {Mono(16, PulseChannel(L, PulseSites)) : L \in ExecLengths}

InitExec ==
    /\ inBuffer \in ExecBuffers
    /\ exec \in {Entered(fn) : fn \in FeatureFunctions}
    /\ outAnalysis = None
    /\ prevAnalysis = None
    /\ inSignal = NoFrame
    /\ outMagnitude = None
    /\ LyriaOff
    /\ GeminiOff
    /\ StudioOff
    /\ UploadOff
    /\ PromptOff

NextExec ==
    \/ FrameLoopRuns
    \/ FrameLoopEnds
    \/ CopyLoopRuns
    \/ CopyLoopEnds
    \/ PermuteLoopRuns
    \/ PermuteLoopEnds
    \/ ProbeLoopRuns
    \/ ProbeLoopEnds
    \/ StageLoopRuns
    \/ StageLoopEnds
    \/ BlockLoopRuns
    \/ BlockLoopEnds
    \/ ButterflyLoopRuns
    \/ ButterflyLoopEnds
    \/ MagnitudeLoopRuns
    \/ MagnitudeLoopEnds
    \/ BinLoopRuns
    \/ BinLoopEnds

SpecExec == InitExec /\ [][NextExec]_vars

\* A call runs on one thread without interruption: a statement that can be
\* executed is.
FairExec == SpecExec /\ WF_vars(NextExec)

(***************************************************************************)
(* Properties of the feature extractor.  A call has returned when          *)
(* outAnalysis holds a result; the properties below relate that result to  *)
(* the buffer it was computed from.                                        *)
(***************************************************************************)
Called == outAnalysis # None
Result == Get(outAnalysis)
Channel0 == getChannelData(inBuffer, 0)

\* F(0) + ... + F(n - 1)
RECURSIVE SumOver(_, _)
SumOver(F(_), n) == IF n <= 0 THEN 0 ELSE SumOver(F, n - 1) + F(n - 1)

\* The magnitude spectra of the frames the loop over frames of the given
\* size visits, in order.
Spectra(channelData, size) ==
    LET starts == FrameStarts(Len0(channelData), size, hopSize)
    IN  NewArray(LAMBDA k : fft(Slice(channelData, starts[k + 1],
                                      starts[k + 1] + size)),
                 Len(starts))

\* sum(mag_i) and sum(freq_i * mag_i) over the bins 0 .. N/2 - 1.
HalfSum(magnitude) ==
    SumOver(LAMBDA j : magnitude[j], Len0(magnitude) \div 2)
HalfWeighted(magnitude, sampleRate) ==
    SumOver(LAMBDA j : Prod(Quot(j * sampleRate, Len0(magnitude)),
                            magnitude[j]),
            Len0(magnitude) \div 2)

\* C1: the spectral centroid is the mean, over the analysed frames of
\* channel 0 whose magnitude sum over the bins 0 .. N/2 - 1 is not zero, of
\* sum(freq_i * mag_i) / sum(mag_i) over those bins; frames of zero sum
\* enter neither the total nor the count, the result is never the outcome
\* of a division by zero, and it is 0 when no frame has a non-zero sum.
C1_CentroidIsMeanOfNonSilentFrames ==
    Called =>
        LET spectra == Spectra(Channel0, fftSize)
            sums == NewArray(LAMBDA k : HalfSum(spectra[k]), Len0(spectra))
            counted == {k \in DOMAIN sums : sums[k] # 0}
            total ==
                SumOver(LAMBDA k :
                            IF k \in counted
                            THEN Quot(HalfWeighted(spectra[k],
                                                   inBuffer.sampleRate),
                                      sums[k])
                            ELSE 0,
                        Len0(spectra))
        IN  /\ ~Result.spectralCentroid.nan
            /\ counted = {} => Result.spectralCentroid.v = 0
            /\ counted # {} =>
                  Result.spectralCentroid.v
                      = Quot(total, Cardinality(counted) * Unit)

\* A call on a channel with silent frames and with sounding frames, whose
\* centroid is not zero.
C1_Witness ==
    /\ Called
    /\ LET spectra == Spectra(Channel0, fftSize)
       IN  /\ \E k \in DOMAIN spectra : HalfSum(spectra[k]) = 0
           /\ \E k \in DOMAIN spectra : HalfSum(spectra[k]) > 0
    /\ Result.spectralCentroid.v > 0

\* C2: the frame loops of the centroid and of the polyphony detector visit
\* the frame at offset k * hopSize for every k with k * hopSize + fftSize
\* within the channel's length; a channel of exactly fftSize samples yields
\* one frame.
C2_EveryFullFrameIsAnalysed ==
    Called =>
        \A k \in 0 .. Len0(Channel0) :
            k * hopSize + fftSize <= Len0(Channel0)
                => k * hopSize
                     \in Range(FrameStarts(Len0(Channel0), fftSize, hopSize))

\* C3: for every non-empty channel of n samples the zero-crossing rate is
\* the number of indices 1 .. n-1 whose sample differs from the one before in
\* being >= 0, divided by n - 1; it lies in [0, 1], is 0 for a signal of
\* constant sign and 1 for one that changes sign at every sample.
C3_ZeroCrossingRate ==
    Called /\ Len0(Channel0) >= 1 =>
        LET n == Len0(Channel0)
            crossings ==
                {i \in 1 .. (n - 1) :
                    (Channel0[i] >= 0) # (Channel0[i - 1] >= 0)}
            rate == Result.zeroCrossingRate
        IN  /\ ~rate.nan
            /\ rate.v = Quot(Cardinality(crossings), n - 1)
            /\ 0 <= rate.v /\ rate.v <= Unit
            /\ crossings = {} => rate.v = 0
            /\ crossings = 1 .. (n - 1) => rate.v = Unit

\* The peaks of a magnitude spectrum: the bins other than the first and
\* the last that exceed a tenth of the largest bin and both neighbours.
Peaks(magnitude) ==
    LET top == CHOOSE m \in Range(magnitude) :
                   \A other \in Range(magnitude) : other <= m
    IN  {j \in 1 .. (Len0(magnitude) - 2) :
            /\ 10 * magnitude[j] > top
            /\ magnitude[j] > magnitude[j - 1]
            /\ magnitude[j] > magnitude[j + 1]}

\* The analysed frames with more than 3 peaks.
PolyphonicFrames(spectra) ==
    {k \in DOMAIN spectra : Cardinality(Peaks(spectra[k])) > 3}

\* C4: detectPolyphony is true exactly when more than 0.3 of the analysed
\* frames have more than 3 peaks; it is false when no frame is analysed and
\* when exactly 30% of the frames are polyphonic.
C4_PolyphonyIsFractionAboveThreshold ==
    Called =>
        LET spectra == Spectra(Channel0, fftSize)
            total == Len0(spectra)
            polyphonic == Cardinality(PolyphonicFrames(spectra))
        IN  Result.isPolyphonic
                <=> (total > 0 /\ 10 * polyphonic > 3 * total)

\* A call on a channel of which exactly 30% of the frames are polyphonic.
C4_Witness ==
    /\ Called
    /\ LET spectra == Spectra(Channel0, fftSize)
       IN  /\ Len0(spectra) > 0
           /\ 10 * Cardinality(PolyphonicFrames(spectra)) = 3 * Len0(spectra)
    /\ ~Result.isPolyphonic

\* C5: the coefficient vector has exactly mfccCoeffs entries, those of the
\* first frame, whenever the channel holds a full frame.
C5_CoefficientVectorHasFixedLength ==
    Called /\ Len0(Channel0) >= frameSize =>
        /\ Len(Result.mfccFeatures) = mfccCoeffs
        /\ Result.mfccFeatures
              = MfccPush(inBuffer.sampleRate,
                         fft(Slice(Channel0, 0, frameSize)),
                         [j |-> 0, mfccFeatures |-> << >>])

\* C18: the coefficients are mel-mapped bin positions, not energies:
\* whenever the frame loop yields a first frame, coefficient k is
\* 2595 * log10(1 + (k * sampleRate / frameSize) / 700), a value fixed by
\* the sample rate alone, so buffers of one sample rate agree on the whole
\* vector whatever their samples.
C18_CoefficientsAreMelPositions ==
    (Called /\ FrameStarts(Len0(Channel0), frameSize, hopSize) # << >>) =>
        /\ Len(Result.mfccFeatures) = mfccCoeffs
        /\ \A k \in 0 .. (mfccCoeffs - 1) :
              Result.mfccFeatures[k + 1]
                 = Prod(2595 * Unit,
                        Log10(Unit + Quot(Quot(k * inBuffer.sampleRate, frameSize),
                                          700 * Unit)))

\* The coefficients were computed for a buffer whose first frame is not
\* silent.
C18_Witness ==
    /\ Called
    /\ FrameStarts(Len0(Channel0), frameSize, hopSize) # << >>
    /\ \E i \in 0 .. (frameSize - 1) : Channel0[i] # 0
    /\ Len(Result.mfccFeatures) = mfccCoeffs

\* C6: a channel 0 of zero samples only, of any length, yields
\* zero-crossing rate 0, centroid 0 and no polyphony, every frame's
\* spectrum being zero.
C6_SilenceYieldsZeroFeatures ==
    Called /\ (\A i \in DOMAIN Channel0 : Channel0[i] = 0) =>
        /\ Result.zeroCrossingRate = Num(0)
        /\ Result.spectralCentroid = Num(0)
        /\ ~Result.isPolyphonic
        /\ LET spectra == Spectra(Channel0, fftSize)
           IN  \A k \in DOMAIN spectra :
                   \A j \in DOMAIN spectra[k] : spectra[k][j] = 0

RECURSIVE DftSum(_, _, _)
DftSum(signal, k, n) ==
    IF n >= Len0(signal) THEN CZero
    ELSE CAdd(CMul(CReal(signal[n]),
                   Zeta((FFTOrder \div Len0(signal)) * k * n)),
              DftSum(signal, k, n + 1))

\* C7: for a frame of power-of-two length N, fft returns N non-negative
\* values, bin i being the magnitude of the i-th coefficient of the
\* discrete Fourier transform of the frame.
C7_FftIsMagnitudeOfDft ==
    outMagnitude # None =>
        LET magnitude == Get(outMagnitude)
        IN  /\ Len0(magnitude) = Len0(inSignal)
            /\ \A i \in DOMAIN magnitude :
                  /\ magnitude[i] >= 0
                  /\ magnitude[i] = Magnitude(DftSum(inSignal, i, 0))

\* The transform of a frame of full length with two pulses has been taken.
C7_Witness ==
    /\ outMagnitude # None
    /\ Len0(inSignal) = FFTOrder
    /\ Cardinality({i \in DOMAIN inSignal : inSignal[i] # 0}) = 2
    /\ \E i, j \in DOMAIN Get(outMagnitude) :
           Get(outMagnitude)[i] # Get(outMagnitude)[j]

\* The index obtained by reversing the lowest `bits` bits of i.
RECURSIVE ReverseBits(_, _)
ReverseBits(i, bits) ==
    IF bits = 0 THEN 0
    ELSE (i % 2) * (2 ^ (bits - 1)) + ReverseBits(i \div 2, bits - 1)

\* log2 of a power of two.
RECURSIVE BitsOf(_)
BitsOf(N) == IF N <= 1 THEN 0 ELSE 1 + BitsOf(N \div 2)

\* The value of j in iteration i of the bit-reversal loop for N entries
\* (0 before the loop).
RECURSIVE RunningIndex(_, _)
RunningIndex(N, i) ==
    IF i = 0 THEN 0 ELSE NextReversed(RunningIndex(N, i - 1), N \div 2)

\* The entries of the frame as the loop finds them, and the positions
\* 0 .. N-1 as an array of their own.
FrameEntries == NewArray(LAMBDA i : CReal(inSignal[i]), Len0(inSignal))
FramePositions == NewArray(LAMBDA i : i, Len0(inSignal))

\* C20: for a frame of power-of-two length N the bit-reversal loop leaves
\* at position i the entry that was at the bit-reversal of i (within
\* log2(N) bits): j is the bit-reversal of i in every iteration, each
\* pair i < j is swapped exactly once, a position that is its own
\* reversal is untouched, and permuting twice restores the order.
C20_BitReversalPermutation ==
    LET N == Len0(inSignal)
        bits == BitsOf(N)
        Rev(i) == ReverseBits(i, bits)
        entries == BitReverseLoop(FrameEntries, 1, 0)
        positions == BitReverseLoop(FramePositions, 1, 0)
        swaps == {i \in 1 .. (N - 1) : i < RunningIndex(N, i)}
    IN  /\ \A i \in 1 .. (N - 1) : RunningIndex(N, i) = Rev(i)
        /\ \A i \in 0 .. (N - 1) :
              /\ positions[i] = Rev(i)
              /\ entries[i] = FrameEntries[Rev(i)]
              /\ Rev(i) = i => positions[i] = i
        /\ swaps = {i \in 0 .. (N - 1) : i < Rev(i)}
        /\ \A i \in swaps : RunningIndex(N, i) \notin swaps
        /\ BitReverseLoop(positions, 1, 0) = FramePositions
        /\ BitReverseLoop(entries, 1, 0) = FrameEntries

\* The transform was taken of a frame of eight or more samples whose
\* pulse sits at a position the permutation moves.
C20_Witness ==
    /\ outMagnitude # None
    /\ Len0(inSignal) >= 8
    /\ \E i \in DOMAIN inSignal :
          /\ inSignal[i] # 0
          /\ ReverseBits(i, BitsOf(Len0(inSignal))) # i

(***************************************************************************)
(* Properties of music generation.                                         *)
(***************************************************************************)
\* C9: every answer to a generation request is either a success whose
\* audio_url is a string, or an error of status 500 with success false and
\* the message prefixed 'Lyria generation failed:' when generateMusic threw.
C9_SuccessCarriesStringUrl ==
    lyriaResponse # None =>
        LET response == Get(lyriaResponse)
        IN  \/ /\ response.status = 200
               /\ response.body.success
               /\ response.body.data.audio_url.type = "string"
            \/ /\ response.status = 500
               /\ ~response.body.success

(***************************************************************************)
(* Properties of the Gemini service.                                       *)
(***************************************************************************)
\* The mock answers of the two methods.
IsMockAnswer(value) ==
    \/ value \in Range(mockResponses)
    \/ /\ "reasoning" \in DOMAIN value
       /\ value.reasoning
            = "Mock prompt generated based on source and reference audio analysis"

\* C10: without an API key, or when constructing the client throws, the
\* service is not initialized and both methods resolve with a mock answer
\* without calling the hosted model; for every request and every outcome
\* of the hosted call the promise fulfils and never rejects, with a mock
\* answer when the hosted call threw.
C10_GeminiAlwaysFulfils ==
    /\ (~geminiEnv.apiKey \/ geminiEnv.clientThrows) => ~geminiInitialized
    /\ ~geminiInitialized => ~geminiContacted
    /\ geminiOutcome # None =>
          /\ Get(geminiOutcome).settled = "fulfilled"
          /\ ~geminiInitialized => IsMockAnswer(Get(geminiOutcome).value)

\* A parameter the request body supplies rather than omits.
Supplied(body, name) == body[name].type # "undefined"

\* C12: the seed reported in a successful generation result is the seed
\* that was sent to the model for that generation, whether the caller
\* supplied it or the service drew it at random.
C12_ReportedSeedIsSentSeed ==
    (lyriaResponse # None /\ lyriaInput # None
        /\ Get(lyriaResponse).status = 200) =>
        Get(lyriaResponse).body.data.seed = Get(lyriaInput).seed

\* C13: a duration, a temperature within 0.0 .. 1.0 and a seed supplied in
\* the request body reach the model input unchanged; the defaults are used
\* only for a parameter the body omits.
C13_SuppliedParametersReachModel ==
    lyriaInput # None =>
        LET input == Get(lyriaInput)
        IN  /\ \A name \in {"duration", "seed", "temperature"} :
                  Supplied(lyriaBody, name) => input[name] = lyriaBody[name]
            /\ ~Supplied(lyriaBody, "duration")
                  => input.duration = JsNumber(DefaultDuration)
            /\ ~Supplied(lyriaBody, "temperature")
                  => input.temperature = JsNumber(DefaultTemperature)

(***************************************************************************)
(* Properties of the studio.                                               *)
(***************************************************************************)
\* The step a handler takes when the requests of its calls end as log.
StudioHandled(log) ==
    \/ /\ DOMAIN log = SourceMessages
       /\ \E audio \in UploadedAudios : SourceUploaded(audio, log)
    \/ /\ DOMAIN log = DesiredMessages
       /\ \E audio \in DesiredAudios : DesiredUploaded(audio, log)
    \/ /\ DOMAIN log = {}
       /\ \/ \E text \in UserPrompts : IntentTyped(text)
          \/ FileDropped("source")
          \/ DesiredEnabled(workflow) /\ FileDropped("desired")
          \/ \E zone \in {"source", "desired"} : DecodeFailed(zone)
          \/ \E i \in CallsAt("requested") : GenerateUnanswered(i)
          \/ WorkflowReset
    \/ /\ DOMAIN log = AnalysisMessages(workflow)
       /\ AudioAnalyzed(log)
    \/ /\ DOMAIN log = PromptMessages(workflow, section.userPrompt)
       /\ GeneratePressed(log)
    \/ \E i \in CallsAt("requested"), run \in ReplicateRuns, random \in Randoms :
          /\ DOMAIN log = AnswerMessages(i, run, random)
          /\ GenerateAnswered(i, run, random, log)
    \/ /\ DOMAIN log = DownloadMessages
       /\ \E i \in CallsAt("downloading"), audio \in {RealAudio, MockAudio} :
             Downloaded(i, audio, log)

\* The same calls with every request answered 200.
Delivered(log) == [message \in DOMAIN log |-> "delivered"]

\* C11: logging never affects control flow: however the request of a
\* logToTerminal call ends (200, non-OK status, fetch rejecting,
\* JSON.stringify throwing), the promise of the call fulfils, and the
\* handler that logged leaves the store, the section and its promises as
\* it does when every request is delivered.
C11_LoggingNeverAffectsControlFlow ==
    [][/\ \A message \in DOMAIN logPromises' :
             logPromises'[message].settled = "fulfilled"
       /\ StudioHandled(Delivered(logged'))]_vars

\* Generation has completed although the request of its last
\* logToTerminal call found no server.
C11_Witness ==
    /\ DOMAIN logged = DownloadMessages
    /\ logged["Moving to results step"] = "unreachable"
    /\ workflow.currentStep = "results"
    /\ Truthy(workflow.generatedAudio)

\* The place of a step in WORKFLOW_STEPS.
Position(step) == CHOOSE k \in DOMAIN WORKFLOW_STEPS : WORKFLOW_STEPS[k] = step

\* C14: currentStep only ever changes to a later step of WORKFLOW_STEPS,
\* except that resetWorkflow returns it to upload_reference.
C14_StepsOnlyMoveForward ==
    [][\/ Position(workflow'.currentStep) >= Position(workflow.currentStep)
       \/ /\ Truthy(workflow.generatedAudio)
          /\ workflow' = resetWorkflow(workflow)]_vars

\* C15: every step before currentStep has progress 100, and once there is
\* generated audio every step up to results has.
C15_EarlierStepsAreComplete ==
    /\ \A k \in DOMAIN WORKFLOW_STEPS :
          k < Position(workflow.currentStep)
             => workflow.progress[WORKFLOW_STEPS[k]] = 100
    /\ Truthy(workflow.generatedAudio) =>
          \A step \in Range(WORKFLOW_STEPS) : workflow.progress[step] = 100

\* part occurs in list as a run of consecutive elements.
Contains(list, part) ==
    \E i \in 0 .. (Len(list) - Len(part)) :
        SubSeq(list, i + 1, i + Len(part)) = part

\* C19: whenever the intent text was not blank when Transform Melody was
\* pressed, the prompt of the request to /api/lyria/generate contains the
\* text, whether or not the analysis had run.
C19_PromptCarriesUserIntent ==
    \A i \in DOMAIN section.calls :
        Trim(section.calls[i].pressed) # << >> =>
            Contains(section.calls[i].request.prompt.s, section.calls[i].pressed)

(***************************************************************************)
(* Properties of the upload.                                               *)
(***************************************************************************)
\* The MIME types of the formats the README lists as supported.
SupportedFormats ==
    [WAV |-> "audio/wav", MP3 |-> "audio/mpeg", FLAC |-> "audio/flac",
     M4A |-> "audio/mp4"]

\* C16: validateAudioFile accepts exactly the files of the five valid
\* MIME types of at most 10 MiB, and names the format first when type and
\* size are both wrong; and every WAV, MP3, FLAC or M4A file of at most
\* 10 MiB dropped on an uploader of the studio is handed to onUpload once
\* it has been decoded.
C16_SupportedFilesAreAccepted ==
    uploader.dropped # Null =>
        LET file == uploader.dropped
            validation == validateAudioFile(file)
            goodType == file.type \in {"audio/wav", "audio/mpeg", "audio/flac",
                                       "audio/mp4", "audio/ogg"}
            goodSize == file.size <= 10 * 1024 * 1024
        IN  /\ validation.valid <=> (goodType /\ goodSize)
            /\ ~validation.valid => validation.error.type = "string"
            /\ ~goodType =>
                  validation.error
                     = JsString("Unsupported audio format. Please use WAV, MP3, FLAC, M4A, or OGG files.")
            /\ (/\ file.type \in Range(SupportedFormats)
                /\ goodSize
                /\ ~uploader.isProcessing
                /\ uploader.error # JsString("Unable to decode audio data"))
                  => uploader.passed = file

(***************************************************************************)
(* Properties of prompt generation.                                        *)
(***************************************************************************)
\* The request carries a source analysis, a workflow type and a user
\* prompt, and no reference analysis; and it has been answered.
SourceOnlyAnswered ==
    /\ promptResponse # None
    /\ Truthy(promptBody.sourceAudioAnalysis)
    /\ Truthy(promptBody.workflowType)
    /\ Truthy(promptBody.userPrompt)
    /\ promptBody.referenceAudioAnalysis = Undefined

\* C17: such a request is answered OK with data holding a prompt, a
\* confidence and a reasoning.
C17_SourceOnlyRequestIsAnswered ==
    SourceOnlyAnswered =>
        /\ Get(promptResponse).status = 200
        /\ {"prompt", "confidence", "reasoning"}
              \subseteq DOMAIN Get(promptResponse).body.data


(***************************************************************************)
(* Properties of the loops.                                                *)
(***************************************************************************)
\* fft is running on a frame.
InFft ==
    exec.pc \in {"copy", "permute", "probe", "stages", "blocks", "butterflies",
                 "magnitudes"}

\* C21: every feature computation terminates: the frame loops of the
\* centroid, coefficient and polyphony functions and the loops of fft stop,
\* so the call returns; and every frame handed to fft has the full frame
\* size of its function, never a shorter trailing slice.
C21_FeatureComputationTerminates ==
    /\ [](InFft => Len0(inSignal) = FrameSizeOf(exec.fn))
    /\ <>(exec.pc = "returned")

\* A call has returned after several frames, on a channel whose length
\* leaves a remainder after the last frame, with the value the function
\* has for the buffer.
C21_Witness ==
    /\ exec # None
    /\ exec.pc = "returned"
    /\ exec.calls >= 2
    /\ (Len0(Channel0) - FrameSizeOf(exec.fn)) % hopSize = 1
    /\ outMagnitude = Some(fft(inSignal))
    /\ CASE exec.fn = "calculateSpectralCentroid" ->
               Get(exec.result) = calculateSpectralCentroid(inBuffer)
         [] exec.fn = "calculateMFCC" ->
               Get(exec.result) = calculateMFCC(inBuffer)
         [] OTHER -> Get(exec.result) = detectPolyphony(inBuffer)


\* C22: under every interleaving of the uploads (whose decoding completes
\* later), generation and Start Over, whenever currentStep is generate or
\* results both sourceAudio and referenceAudio are there, and
\* referenceAudio is there only while sourceAudio is: a desired-sound
\* upload takes effect only while a source audio is present.
C22_DesiredUploadNeedsSource ==
    /\ workflow.currentStep \in {"generate", "results"} =>
          Truthy(workflow.sourceAudio) /\ Truthy(workflow.referenceAudio)
    /\ Truthy(workflow.referenceAudio) => Truthy(workflow.sourceAudio)


\* C23: in every state reachable through the studio, currentStep = results
\* implies that there is generated audio, and there is generated audio
\* exactly when progress.generate and progress.results are 100; and when
\* the generated audio could not be downloaded or decoded, the step that
\* stores the mock buffer reaches results and records no error.
C23_ResultsHaveGeneratedAudio ==
    /\ [](/\ workflow.currentStep = "results" =>
                Truthy(workflow.generatedAudio)
          /\ Truthy(workflow.generatedAudio) <=>
                (/\ workflow.progress["generate"] = 100
                 /\ workflow.progress["results"] = 100))
    /\ [][((\E i \in CallsAt("downloading") : section' = Returns(section, i))
            /\ workflow'.generatedAudio = MockAudio)
             => /\ workflow'.currentStep = "results"
                /\ workflow'.error = workflow.error]_vars

\* The download failed, the mock buffer is the result, and no error shows.
C23_Witness ==
    /\ workflow.generatedAudio = MockAudio
    /\ workflow.currentStep = "results"
    /\ workflow.error = Null


\* The fields of the store a failing handleGenerate leaves alone.
FieldsKept ==
    {"generatedAudio", "currentStep", "progress", "sourceAudio",
     "referenceAudio", "sourceAudioAnalysis", "referenceAudioAnalysis"}

\* C24: when a generation attempt fails (the request rejects, the status
\* is not OK, or audio_url is not a string), handleGenerate sets error to
\* 'Generation failed. Please try again.' and leaves generatedAudio,
\* currentStep, progress, both audios and both analyses unchanged; and
\* called while sourceAudio or referenceAudio is missing, handleGenerate
\* changes nothing and sends no request.
C24_FailedGenerationOnlySetsError ==
    /\ []((~Truthy(workflow.sourceAudio) \/ ~Truthy(workflow.referenceAudio))
             => handleGenerate(workflow, section) =
                   [workflow |-> workflow, section |-> section])
    /\ [][(\E i \in CallsAt("requested") : section' = Returns(section, i))
             => /\ workflow'.error =
                      JsString("Generation failed. Please try again.")
                /\ \A field \in FieldsKept :
                      workflow'[field] = workflow[field]]_vars
    /\ [][Len(section'.calls) > Len(section.calls)
             => \A field \in FieldsKept \cup {"error"} :
                   workflow'[field] = workflow[field]]_vars

\* An attempt has failed: the error shows and the step is still generate.
C24_Witness ==
    /\ workflow.error = JsString("Generation failed. Please try again.")
    /\ section.calls = << >>
    /\ workflow.currentStep = "generate"
    /\ ~Truthy(workflow.generatedAudio)


\* C25: processing.generation is true exactly while a call of
\* handleGenerate is in flight, processing.audioAnalysis is false whenever
\* handleAnalyzeAudio is not running, at most one generation request is in
\* flight at any time, and, every pending request settling eventually, a
\* generation flag that is true becomes false.
C25_ProcessingFlagsAreReset ==
    /\ [](/\ ~workflow.processing.audioAnalysis
          /\ workflow.processing.generation <=> section.calls # << >>
          /\ Len(section.calls) <= 1)
    /\ workflow.processing.generation ~> ~workflow.processing.generation

\* Both handlers have run and returned: the analyses and the generated
\* audio are there, and no call is in flight.
C25_Witness ==
    /\ Truthy(workflow.sourceAudioAnalysis)
    /\ Truthy(workflow.generatedAudio)
    /\ section.calls = << >>
    /\ ~workflow.processing.generation
    /\ ~workflow.processing.audioAnalysis


\* C26: whenever handleGenerate can be invoked and sourceAudioAnalysis
\* (respectively referenceAudioAnalysis) is non-null, the analysis is the
\* one handleAnalyzeAudio produces from the buffer now stored as
\* sourceAudio (respectively referenceAudio).
C26_AnalysisIsOfStoredAudio ==
    ~GenerateDisabled(workflow) =>
        /\ Truthy(workflow.sourceAudioAnalysis) =>
              workflow.sourceAudioAnalysis =
                 mockSourceAnalysis(workflow.sourceAudio)
        /\ Truthy(workflow.referenceAudioAnalysis) =>
              workflow.referenceAudioAnalysis =
                 mockReferenceAnalysis(workflow.referenceAudio)

=============================================================================
